---- MODULE Spec2Model ----
(***************************************************************************)
(* Fragility cache and parallel job scheduler of taipei-lens               *)
(* (preprocess/building_fragility_curve).                                  *)
(*                                                                         *)
(* Spec      : one call of ParallelFragilityProcessor.process_buildings_   *)
(*             parallel: the scheduler process, the pool of worker         *)
(*             processes, the Master cache file and the worker cache files.*)
(* SpecCache : the FragilityCacheManager operations store_fragility_curve  *)
(*             and merge_worker_caches applied in any sequence.            *)
(* SpecNames : the names of the files a Master's managers write, glob and  *)
(*             unlink in the Master's directory.                           *)
(* SpecIDA   : IDAEngine.run_full_ida, the sweep of the intensity levels   *)
(*             for each ground motion.                                     *)
(* SpecValidate : FragilityCurveValidator.validate_fragility_curve applied  *)
(*             to a curve.                                                 *)
(* SpecRoundTrip : a FragilityCacheManager stores results, saves its file  *)
(*             as JSON text, and the file is loaded again.                 *)
(* SpecCity  : CityLevelFragilityAnalysis.run_complete_analysis up to the  *)
(*             tasks given to the worker pool.                             *)
(* SpecTracker : DetailedProgressTracker.update_task_completion and       *)
(*             report_progress called by several threads.                  *)
(* SpecFit   : FragilityAnalyzer.fit_all_fragility_curves and the export   *)
(*             of its curve by analyze_building_archetype.                 *)
(* SpecLeftover: the call of Spec in a directory holding a worker file    *)
(*             left by an earlier run.                                     *)
(* SpecScan    : scan_ground_motions and load_ground_motion.               *)
(* SpecManager : one FragilityCacheManager over its life: load_cache,     *)
(*             store, get with and without check_updates, save_cache.      *)
(* SpecClassify : BuildingClassifier objects built and used over the years *)
(*             (classify_building), and the stick models generated from    *)
(*             the classified buildings.                                   *)
(*                                                                         *)
(* Files are written in two steps (open(path,'w') truncates, json.dump     *)
(* fills), so a reader can meet a truncated file; json.load then raises    *)
(* JSONDecodeError.  File writes themselves do not fail (no full disk);    *)
(* unlink may fail.  Cache file names are the default ones                 *)
(* (fragility_cache.json and fragility_cache_worker_<id>.json).            *)
(***************************************************************************)
EXTENDS Integers, Sequences, FiniteSets, TLC

\* ------------------------------------------------------------------ bounds
NumTasks == 4          \* length of building_tasks
MaxWorkers == 2        \* size of the process pool
NumCacheWorkers == 2   \* worker files in SpecCache
MaxTs == 2             \* timestamps drawn in SpecCache
NumVals == 2           \* distinct results drawn in SpecCache
NumGMs == 2            \* ground motions in SpecIDA
NumLevels == 3         \* intensity levels in SpecIDA

\* ------------------------------------------------------- program constants
MergeEvery == 3        \* "completed_count % 3 == 0"
MaxBackups == 5        \* "if len(backup_files) > 5"
MaxFloors == 50        \* "floor_count > 50"

\* Archetype codes of valid tasks (get_archetype_code): upper case without
\* blanks, so _generate_cache_key (strip, upper) leaves them as they are.
Archetypes == {"A", "B"}
Tasks == 1..NumTasks
Main == 0              \* worker_id None
MasterPath == 0
WorkerPaths == Tasks
Paths == {MasterPath} \cup WorkerPaths

\* FragilityCurveResult: ts is computed_timestamp, val stands for the
\* collapse probabilities and every other field.  NoEntry: key not in dict.
NoEntry == [ts |-> 0, val |-> 0]
EmptyCache == [k \in Archetypes |-> NoEntry]
CacheKeys(cache) == {k \in Archetypes : cache[k] # NoEntry}

\* A cache file on disk.
AbsentFile == [st |-> "absent", data |-> EmptyCache]
PartialFile == [st |-> "partial", data |-> EmptyCache]
OkFile(cache) == [st |-> "ok", data |-> cache]
Exists(f) == f.st # "absent"

\* ------------------------------------------------ FragilityCacheManager
\* Variant: every manager writes the file it was given, worker or not.
CacheFilePathShared(worker_id) == MasterPath

\* __init__: a worker writes <stem>_worker_<id><ext>, the main manager the
\* file it was given.
CacheFilePath(worker_id) == IF worker_id # Main THEN worker_id ELSE MasterPath

\* open + json.load + cache_entries: the entries, or a JSONDecodeError.
ReadCacheFile(f) == [ok |-> f.st = "ok", data |-> IF f.st = "ok" THEN f.data ELSE EmptyCache]

\* load_cache: a worker loads the Master when it exists and parses (three
\* attempts), and its own file only when the Master gave nothing.
LoadCache(worker_id, fs) ==
  LET main == ReadCacheFile(fs[MasterPath])
      loaded_from_main == worker_id # Main /\ Exists(fs[MasterPath]) /\ main.ok
      own == ReadCacheFile(fs[CacheFilePath(worker_id)])
  IN IF loaded_from_main THEN main.data
     ELSE IF Exists(fs[CacheFilePath(worker_id)]) /\ own.ok THEN own.data
     ELSE EmptyCache

\* get_fragility_curve on a freshly constructed manager: a dictionary lookup
\* (reload_cache_if_modified only records the mtime on its first call).
GetFragilityCurve(cache, k) == cache[k]

\* store_fragility_curve: self.cache_data[cache_key] = result
StoreFragilityCurve(cache, k, e) == [cache EXCEPT ![k] = e]

\* Variant: the worker entry overwrites the held one whatever the timestamps.
MergeEntryOverwrite(held, incoming) == incoming

\* Variant: the worker entry also replaces a held entry of the same timestamp.
MergeEntryNotOlder(held, incoming) ==
  IF held = NoEntry THEN incoming
  ELSE IF incoming.ts >= held.ts THEN incoming ELSE held

\* merge_worker_caches, one key of one worker file: install the worker entry
\* if the key is absent or the worker entry is strictly newer.
MergeEntry(held, incoming) ==
  IF held = NoEntry THEN incoming
  ELSE IF incoming.ts > held.ts THEN incoming ELSE held

\* Variant: a worker file only updates keys the Master already holds.
MergeFileKnownKeys(cache, data) ==
  [k \in Archetypes |-> IF data[k] = NoEntry \/ cache[k] = NoEntry THEN cache[k]
                        ELSE MergeEntry(cache[k], data[k])]

\* merge_worker_caches, one worker file.
MergeFile(cache, data) ==
  [k \in Archetypes |-> IF data[k] = NoEntry THEN cache[k] ELSE MergeEntry(cache[k], data[k])]

\* merge_worker_caches: the files found by the glob, in the order the glob
\* lists them; a file that does not parse is logged and skipped.
RECURSIVE MergeWorkerCaches(_, _, _)
MergeWorkerCaches(cache, order, fs) ==
  IF order = <<>> THEN cache
  ELSE LET rd == ReadCacheFile(fs[Head(order)])
       IN MergeWorkerCaches(IF rd.ok THEN MergeFile(cache, rd.data) ELSE cache,
                            Tail(order), fs)

\* base_cache_dir.glob("<stem>_worker_*.json")
WorkerCacheFiles(fs) == {p \in WorkerPaths : Exists(fs[p])}

\* The orders in which a glob may list a set of files.
Orders(S) == {o \in [1..Cardinality(S) -> S] : \A a, b \in 1..Cardinality(S) : a # b => o[a] # o[b]}

\* Variant: the backup is made by moving the cache file.
CreateBackupByMove(fs, bk, p) ==
  IF Exists(fs[p])
  THEN [fs |-> [fs EXCEPT ![p] = AbsentFile], bk |-> [bk EXCEPT ![p] = Append(bk[p], fs[p])]]
  ELSE [fs |-> fs, bk |-> bk]

\* _create_backup: shutil.copy2 to <stem>.backup_<time>.json, then keep the
\* newest MaxBackups backups.  The cache file itself is left in place.
CreateBackup(fs, bk, p) ==
  IF Exists(fs[p])
  THEN LET all == Append(bk[p], fs[p])
       IN [fs |-> fs,
           bk |-> [bk EXCEPT ![p] = IF Len(all) > MaxBackups
                                    THEN SubSeq(all, Len(all) - MaxBackups + 1, Len(all))
                                    ELSE all]]
  ELSE [fs |-> fs, bk |-> bk]

\* save_cache, open(path, 'w'): the file exists and is empty.
SaveOpen(fs, p) == [fs EXCEPT ![p] = PartialFile]

\* save_cache, json.dump: the file holds the manager's entries.
SaveDump(fs, p, cache) == [fs EXCEPT ![p] = OkFile(cache)]

\* Variant: the first failing unlink ends the cleanup.
RECURSIVE CleanupUntilFailure(_, _, _)
CleanupUntilFailure(fs, order, fail) ==
  IF order = <<>> \/ Head(order) \in fail THEN fs
  ELSE CleanupUntilFailure([fs EXCEPT ![Head(order)] = AbsentFile], Tail(order), fail)

\* cleanup_worker_cache_files: unlink each file found; a failing unlink is
\* logged and the loop goes on.
RECURSIVE CleanupWorkerCacheFiles(_, _, _)
CleanupWorkerCacheFiles(fs, order, fail) ==
  IF order = <<>> THEN fs
  ELSE CleanupWorkerCacheFiles(
         IF Head(order) \in fail THEN fs ELSE [fs EXCEPT ![Head(order)] = AbsentFile],
         Tail(order), fail)

\* ------------------------------------------------------ BuildingProperties
\* The task parameters the two validations read; other_ok stands for the
\* remaining conjuncts of BuildingProperties.validate (era, scale, height, age).
TaskInputs ==
  [arch : Archetypes, area_sqm : {100}, floor_count : {5}, structural_system : {"RC"}, other_ok : {TRUE}]
  \cup [arch : {"A"}, area_sqm : {0}, floor_count : {5}, structural_system : {"RC"}, other_ok : {TRUE}]
  \cup [arch : {"A"}, area_sqm : {100}, floor_count : {0, MaxFloors + 1}, structural_system : {"RC"}, other_ok : {TRUE}]
  \cup [arch : {"A"}, area_sqm : {100}, floor_count : {5}, structural_system : {"XX"}, other_ok : {TRUE}]

\* BuildingProperties.validate
Validate(p) ==
  /\ p.floor_count > 0
  /\ p.structural_system \in {"RC", "SC"}
  /\ p.area_sqm > 0
  /\ p.other_ok

\* ParallelFragilityProcessor._validate_building_parameters
ValidateBuildingParameters(p) ==
  /\ ~(p.area_sqm <= 0)
  /\ ~(p.floor_count <= 0 \/ p.floor_count > MaxFloors)
  /\ p.structural_system \in {"RC", "SC"}

\* ------------------------------------------------------------------ state
VARIABLES
  building_tasks,   \* argument of process_buildings_parallel (<<>> before the call)
  pc,               \* position of the scheduler in process_buildings_parallel
  final,            \* the scheduler is in the final merge block
  cache_data,       \* main_cache_manager.cache_data
  files,            \* the cache files on disk
  backups,          \* the backup copies of each cache file, oldest first
  wpc,              \* position of each task's worker_analyze_building
  wcache,           \* cache_data of each task's worker cache manager
  result,           \* TaskResult.result of each task
  outcome,          \* what the scheduler recorded for each task
  stats,            \* ParallelFragilityProcessor.stats and completed_count
  now,              \* wall clock
  lastOp,           \* last cache operation and its argument (SpecCache)
  savedKeys,        \* keys a finished save of the scheduler put in the Master
  sawSaved,         \* tasks dispatched when their key was in savedKeys
  unlinkFailed,     \* worker files whose unlink raised
  mergeRead,        \* worker files the last merge_worker_caches read
  cache_file,       \* SpecNames: name of the Master file (cache_file_path)
  dir,              \* SpecNames: names of the files in the Master's directory
  glob_log,         \* SpecNames: what the last merge or cleanup found
  gm_index,         \* SpecIDA: position of run_full_ida in gm_ids
  level_index,      \* SpecIDA: position of run_ida_for_gm in im_levels
  collapsed,        \* SpecIDA: run_ida_for_gm's flag
  all_results,      \* SpecIDA: the results kept, in order
  backend_runs,     \* SpecIDA: the <<ground motion, level>> pairs analysed
  im_levels,        \* SpecIDA: IDAEngine.im_levels, the configured intensities
  backend_calls,    \* SpecIDA: <<ground motion, intensity>> of each analysis, in order
  year,             \* SpecClassify: calendar year of the wall clock
  current_year,     \* SpecClassify: BuildingClassifier.current_year
  age_stats,        \* SpecClassify: BuildingClassifier.age_stats
  area_standards,   \* SpecClassify: BuildingClassifier._area_standards
  calls,            \* SpecClassify: the calls of classify_building made so far
  models,           \* SpecClassify: the stick model generated from each call's result
  fragility_curve,  \* SpecValidate: the curve given to validate_fragility_curve
  validation,       \* SpecValidate: the findings validate_fragility_curve returned
  rt_manager,       \* SpecRoundTrip: the manager that stores and saves
  rt_disk,          \* SpecRoundTrip: the text of the cache files on disk
  rt_new,           \* SpecRoundTrip: the manager after load_cache
  city_inputs,      \* SpecCity: the files and records run_complete_analysis is given
  city_pc,          \* SpecCity: position of run_complete_analysis
  city_tasks,       \* SpecCity: state of each task given to the worker pool
  pt_tracker,       \* SpecTracker: the counters and last_report_time of a DetailedProgressTracker
  pt_lock,          \* SpecTracker: the thread that holds DetailedProgressTracker.lock (0: free)
  pt_clock,         \* SpecTracker: time.time() since the tracker was built
  pt_pc,            \* SpecTracker: position of each thread that uses the tracker
  pt_snapshots,     \* SpecTracker: the snapshots given to the callbacks, in order
  fit_data,         \* SpecFit: what the IDA results allow each fitting method to produce
  fit_pc,           \* SpecFit: position of analyze_building_archetype in its fitting steps
  fragility_parameters,  \* SpecFit: FragilityAnalyzer.fragility_parameters (the states it holds)
  fragility_params,  \* SpecFit: what fit_all_fragility_curves returned (the states fitted)
  fit_methods,      \* SpecFit: the fitting methods run so far
  mg_files,         \* SpecManager: the Master file and the worker's file on disk
  mg,               \* SpecManager: the FragilityCacheManager (cache_data, stats, _last_cache_mtime)
  mg_stored,        \* SpecManager: the codes given to store_fragility_curve
  mg_log,           \* SpecManager: the last call on the manager and what it did
  mg_calls,         \* SpecManager: number of calls made on the manager and writes made by others
  gm_directory,     \* SpecScan: the EQ### directories on disk, each with its FN and FP file
  scan_pos,         \* SpecScan: number of directories scan_ground_motions has been through
  gm_inventory,     \* SpecScan: GroundMotionProcessor.gm_inventory, the ids of the records kept
  gm_warnings,      \* SpecScan: the directories scan_ground_motions warned about
  gm_load           \* SpecScan: the last load_ground_motion call and its outcome

\* The variables of one run of the scheduler and of the cache operations.
runVars == <<building_tasks, pc, final, cache_data, files, backups, wpc, wcache, result,
             outcome, stats, now, lastOp, savedKeys, sawSaved, unlinkFailed, mergeRead>>

namesVars == <<cache_file, dir, glob_log>>

idaVars == <<gm_index, level_index, collapsed, all_results, backend_runs, im_levels,
             backend_calls>>

classVars == <<year, current_year, age_stats, area_standards, calls, models>>

validVars == <<fragility_curve, validation>>

rtVars == <<rt_manager, rt_disk, rt_new>>

cityVars == <<city_inputs, city_pc, city_tasks>>

trackerVars == <<pt_tracker, pt_lock, pt_clock, pt_pc, pt_snapshots>>

fitVars == <<fit_data, fit_pc, fragility_parameters, fragility_params, fit_methods>>

mgVars == <<mg_files, mg, mg_stored, mg_log, mg_calls>>

scanVars == <<gm_directory, scan_pos, gm_inventory, gm_warnings, gm_load>>

\* The variables a run of the scheduler leaves alone.
others == <<namesVars, idaVars, classVars, validVars, rtVars, cityVars, trackerVars, fitVars, mgVars, scanVars>>

\* The variables each of the other specifications leaves alone.
namesRest == <<runVars, idaVars, classVars, validVars, rtVars, cityVars, trackerVars, fitVars, mgVars, scanVars>>
idaRest == <<runVars, namesVars, classVars, validVars, rtVars, cityVars, trackerVars, fitVars, mgVars, scanVars>>
classRest == <<runVars, namesVars, idaVars, validVars, rtVars, cityVars, trackerVars, fitVars, mgVars, scanVars>>
validRest == <<runVars, namesVars, idaVars, classVars, rtVars, cityVars, trackerVars, fitVars, mgVars, scanVars>>
rtRest == <<runVars, namesVars, idaVars, classVars, validVars, cityVars, trackerVars, fitVars, mgVars, scanVars>>
cityRest == <<runVars, namesVars, idaVars, classVars, validVars, rtVars, trackerVars, fitVars, mgVars, scanVars>>
trackerRest == <<runVars, namesVars, idaVars, classVars, validVars, rtVars, cityVars, fitVars, mgVars, scanVars>>
fitRest == <<runVars, namesVars, idaVars, classVars, validVars, rtVars, cityVars, trackerVars, mgVars, scanVars>>
mgRest == <<runVars, namesVars, idaVars, classVars, validVars, rtVars, cityVars, trackerVars, fitVars, scanVars>>
scanRest == <<runVars, namesVars, idaVars, classVars, validVars, rtVars, cityVars, trackerVars, fitVars, mgVars>>

vars == <<runVars, others>>

\* No file name is under study.
NamesIdle ==
  /\ cache_file = <<>>
  /\ dir = {}
  /\ glob_log = [op |-> "none", found |-> {}, before |-> {}]

\* No sweep is under study.
IdaIdle ==
  /\ gm_index = 0
  /\ level_index = 0
  /\ collapsed = FALSE
  /\ all_results = <<>>
  /\ backend_runs = {}
  /\ im_levels = <<>>
  /\ backend_calls = <<>>

\* BuildingClassifier.__init__: self.age_stats
ZeroStats ==
  [used_max_age |-> 0, used_polygon_max_age |-> 0, used_default_age |-> 0,
   total_processed |-> 0]

\* No classifier is under study.
ClassIdle ==
  /\ year = 0
  /\ current_year = 0
  /\ age_stats = ZeroStats
  /\ area_standards = "None"
  /\ calls = <<>>
  /\ models = <<>>

\* No curve is under study.
ValidIdle ==
  /\ fragility_curve = <<>>
  /\ validation = <<>>

\* No round trip is under study.
RoundTripIdle ==
  /\ rt_manager = [worker_id |-> "None", cache_data |-> <<>>, phase |-> "idle", stores |-> 0]
  /\ rt_disk = <<>>
  /\ rt_new = [loaded |-> FALSE, source |-> "none", cache_data |-> <<>>]

\* No city-level run is under study.
CityIdle ==
  /\ city_inputs = [geojson_exists |-> FALSE, geojson_valid |-> FALSE, gm_directory_exists |-> FALSE, gm_list_exists |-> FALSE, gm_records |-> 0, buildings |-> 0]
  /\ city_pc = "idle"
  /\ city_tasks = <<>>

\* No progress tracker is under study.
TrackerIdle ==
  /\ pt_tracker = [total_tasks |-> 0, completed_tasks |-> 0, successful_tasks |-> 0, failed_tasks |-> 0, cache_hits |-> 0, new_analyses |-> 0, last_report_time |-> 0]
  /\ pt_lock = 0
  /\ pt_clock = 0
  /\ pt_pc = <<>>
  /\ pt_snapshots = <<>>

\* No curve fitting is under study.
FitIdle ==
  /\ fit_data = [psdm_regression |-> FALSE, psdm_states |-> {}, traditional |-> <<>>]
  /\ fit_pc = "idle"
  /\ fragility_parameters = {}
  /\ fragility_params = {}
  /\ fit_methods = {}

\* No single manager is under study.
ManagerIdle ==
  /\ mg_files = <<>>
  /\ mg = [built |-> FALSE, is_main_worker |-> TRUE, cache_data |-> <<>>, stats |-> [cache_hits |-> 0, cache_misses |-> 0, total_requests |-> 0], last_cache_mtime |-> [some |-> FALSE, v |-> 0]]
  /\ mg_stored = {}
  /\ mg_log = [op |-> "none"]
  /\ mg_calls = 0

\* No ground-motion directory is being scanned.
ScanIdle ==
  /\ gm_directory = <<>>
  /\ scan_pos = 0
  /\ gm_inventory = {}
  /\ gm_warnings = {}
  /\ gm_load = [op |-> "none"]

OthersIdle == NamesIdle /\ IdaIdle /\ ClassIdle /\ ValidIdle /\ RoundTripIdle /\ CityIdle /\ TrackerIdle /\ FitIdle /\ ManagerIdle /\ ScanIdle

NoOp == [op |-> "init", k |-> "A", e |-> NoEntry]

\* A Master left by an earlier run (its scheduler merged and saved it).
EarlierMaster == [EmptyCache EXCEPT !["A"] = [ts |-> 1, val |-> 0]]

Submitted == {i \in Tasks : wpc[i] # "rejected"}
Computed(i) == wpc[i] \in {"writing", "ok"}
FutureDone(i) == wpc[i] \in {"hit", "ok", "none", "raised"}
Running == {i \in Tasks : wpc[i] \in {"loaded", "computing", "writing"}}
Arch(i) == building_tasks[i].arch

Init ==
  /\ building_tasks = <<>>
  /\ pc = "start"
  /\ final = FALSE
  /\ \E m \in {AbsentFile, OkFile(EarlierMaster)} :
       /\ files = [p \in Paths |-> IF p = MasterPath THEN m ELSE AbsentFile]
       /\ cache_data = LoadCache(Main, files)
       /\ savedKeys = CacheKeys(m.data)
  /\ backups = [p \in Paths |-> <<>>]
  /\ wpc = [i \in Tasks |-> "rejected"]
  /\ wcache = [i \in Tasks |-> EmptyCache]
  /\ result = [i \in Tasks |-> NoEntry]
  /\ outcome = [i \in Tasks |-> "-"]
  /\ stats = [failed_tasks |-> 0, successful_tasks |-> 0, completed_count |-> 0]
  /\ now = 2
  /\ lastOp = NoOp
  /\ sawSaved = {}
  /\ unlinkFailed = {}
  /\ mergeRead = {}
  /\ OthersIdle

\* ------------------------------------------- process_buildings_parallel
\* Both validation loops and the submission of the validated tasks.
ValidateAndSubmit ==
  /\ pc = "start"
  /\ \E bt \in [Tasks -> TaskInputs] :
       LET valid_tasks == {i \in Tasks : Validate(bt[i])}
           validated_tasks == {i \in valid_tasks : ValidateBuildingParameters(bt[i])}
       IN /\ building_tasks' = bt
          /\ stats' = [stats EXCEPT !.failed_tasks =
                         IF valid_tasks = {} THEN @
                         ELSE @ + Cardinality(valid_tasks \ validated_tasks)]
          /\ wpc' = [i \in Tasks |-> IF i \in validated_tasks THEN "queued" ELSE "rejected"]
          /\ pc' = IF validated_tasks = {} THEN "returned" ELSE "collect"
  /\ UNCHANGED <<final, cache_data, files, backups, wcache, result, outcome, now, lastOp,
                 savedKeys, sawSaved, unlinkFailed, mergeRead, others>>

\* One turn of "for future in as_completed(...)": future.result() re-raises
\* what the worker raised; otherwise the outcome is recorded and every
\* MergeEvery-th completion starts a merge.
Collect(i) ==
  /\ pc = "collect"
  /\ FutureDone(i)
  /\ outcome[i] = "-"
  /\ IF wpc[i] = "raised"
     THEN /\ pc' = "raised"
          /\ UNCHANGED <<outcome, stats, mergeRead, others>>
     ELSE /\ outcome' = [outcome EXCEPT ![i] = IF wpc[i] = "none" THEN "Failed" ELSE "Completed"]
          /\ stats' = [stats EXCEPT
                         !.completed_count = @ + 1,
                         !.successful_tasks = IF wpc[i] = "none" THEN @ ELSE @ + 1,
                         !.failed_tasks = IF wpc[i] = "none" THEN @ + 1 ELSE @]
          /\ pc' = IF (stats.completed_count + 1) % MergeEvery = 0 THEN "merge" ELSE "collect"
  /\ UNCHANGED <<building_tasks, final, cache_data, files, backups, wpc, wcache, result, now,
                 lastOp, savedKeys, sawSaved, unlinkFailed, mergeRead, others>>

\* merge_worker_caches, then save_cache up to _create_backup.
MergeAndBackup(isFinal) ==
  /\ \E order \in Orders(WorkerCacheFiles(files)) :
       cache_data' = MergeWorkerCaches(cache_data, order, files)
  /\ mergeRead' = {p \in WorkerCacheFiles(files) : ReadCacheFile(files[p]).ok}
  /\ LET b == CreateBackup(files, backups, CacheFilePath(Main))
     IN /\ files' = b.fs
        /\ backups' = b.bk
  /\ final' = isFinal
  /\ pc' = "open"
  /\ UNCHANGED <<building_tasks, wpc, wcache, result, outcome, stats, now, lastOp, savedKeys,
                 sawSaved, unlinkFailed, others>>

\* "if completed_count % 3 == 0"
PeriodicMerge ==
  /\ pc = "merge"
  /\ MergeAndBackup(FALSE)

\* The pool has shut down (every submitted future was collected): final merge.
FinalMerge ==
  /\ pc = "collect"
  /\ \A i \in Submitted : outcome[i] # "-"
  /\ MergeAndBackup(TRUE)

\* save_cache, open(self.cache_file_path, 'w') on the Master.
OpenMaster ==
  /\ pc = "open"
  /\ files' = SaveOpen(files, CacheFilePath(Main))
  /\ pc' = "dump"
  /\ UNCHANGED <<building_tasks, final, cache_data, backups, wpc, wcache, result, outcome,
                 stats, now, lastOp, savedKeys, sawSaved, unlinkFailed, mergeRead, others>>

\* save_cache, json.dump of the merged entries into the Master.
FinishSave ==
  /\ pc = "dump"
  /\ files' = SaveDump(files, CacheFilePath(Main), cache_data)
  /\ savedKeys' = savedKeys \cup CacheKeys(cache_data)
  /\ pc' = IF final THEN "cleanup" ELSE "collect"
  /\ UNCHANGED <<building_tasks, final, cache_data, backups, wpc, wcache, result, outcome,
                 stats, now, lastOp, sawSaved, unlinkFailed, mergeRead, others>>

\* cleanup_worker_cache_files after the final save, then the return.
Cleanup ==
  /\ pc = "cleanup"
  /\ \E order \in Orders(WorkerCacheFiles(files)), fail \in SUBSET WorkerCacheFiles(files) :
       /\ files' = CleanupWorkerCacheFiles(files, order, fail)
       /\ unlinkFailed' = fail
  /\ pc' = "returned"
  /\ UNCHANGED <<building_tasks, final, cache_data, backups, wpc, wcache, result, outcome,
                 stats, now, lastOp, savedKeys, sawSaved, mergeRead, others>>

\* ---------------------------------------------- worker_analyze_building
\* A pool process takes the next queued task and constructs its
\* BatchFragilityAnalyzer: FragilityCacheManager(cache_file, worker_id).
Dispatch(i) ==
  /\ pc # "start"
  /\ wpc[i] = "queued"
  /\ \A j \in Tasks : j < i => wpc[j] # "queued"
  /\ Cardinality(Running) < MaxWorkers
  /\ wcache' = [wcache EXCEPT ![i] = LoadCache(i, files)]
  /\ wpc' = [wpc EXCEPT ![i] = "loaded"]
  /\ sawSaved' = IF Arch(i) \in savedKeys THEN sawSaved \cup {i} ELSE sawSaved
  /\ UNCHANGED <<building_tasks, pc, final, cache_data, files, backups, result, outcome,
                 stats, now, lastOp, savedKeys, unlinkFailed, mergeRead, others>>

\* analyze_building_archetype, steps 1 and 2: _check_main_cache builds a main
\* manager on the Master and looks the code up, then the worker's own manager.
CheckCaches(i) ==
  /\ wpc[i] = "loaded"
  /\ LET main_cache_result == GetFragilityCurve(LoadCache(Main, files), Arch(i))
         cached_result == GetFragilityCurve(wcache[i], Arch(i))
     IN IF main_cache_result # NoEntry
        THEN /\ result' = [result EXCEPT ![i] = main_cache_result]
             /\ wpc' = [wpc EXCEPT ![i] = "hit"]
        ELSE IF cached_result # NoEntry
        THEN /\ result' = [result EXCEPT ![i] = cached_result]
             /\ wpc' = [wpc EXCEPT ![i] = "hit"]
        ELSE /\ result' = result
             /\ wpc' = [wpc EXCEPT ![i] = "computing"]
  /\ UNCHANGED <<building_tasks, pc, final, cache_data, files, backups, wcache, outcome,
                 stats, now, lastOp, savedKeys, sawSaved, unlinkFailed, mergeRead, others>>

\* The new analysis succeeds: the result is stamped with datetime.now() (the
\* clock has advanced since the last stamp), stored in the worker's manager,
\* and save_final_cache opens the worker's file.
ComputeOk(i) ==
  /\ wpc[i] = "computing"
  /\ \E t \in {now + 1} :
       LET e == [ts |-> t, val |-> i]
           c == StoreFragilityCurve(wcache[i], Arch(i), e)
           b == CreateBackup(files, backups, CacheFilePath(i))
       IN /\ now' = t
          /\ wcache' = [wcache EXCEPT ![i] = c]
          /\ result' = [result EXCEPT ![i] = e]
          /\ files' = SaveOpen(b.fs, CacheFilePath(i))
          /\ backups' = b.bk
  /\ wpc' = [wpc EXCEPT ![i] = "writing"]
  /\ UNCHANGED <<building_tasks, pc, final, cache_data, outcome, stats, lastOp, savedKeys,
                 sawSaved, unlinkFailed, mergeRead, others>>

\* save_final_cache, json.dump into the worker's file; the task returns.
FinishWrite(i) ==
  /\ wpc[i] = "writing"
  /\ files' = SaveDump(files, CacheFilePath(i), wcache[i])
  /\ wpc' = [wpc EXCEPT ![i] = "ok"]
  /\ UNCHANGED <<building_tasks, pc, final, cache_data, backups, wcache, result, outcome,
                 stats, now, lastOp, savedKeys, sawSaved, unlinkFailed, mergeRead, others>>

\* The analysis gives no result (no stories, empty IDA, no fit): the task
\* returns a TaskResult with success=False.
ComputeNone(i) ==
  /\ wpc[i] = "computing"
  /\ wpc' = [wpc EXCEPT ![i] = "none"]
  /\ UNCHANGED <<building_tasks, pc, final, cache_data, files, backups, wcache, result,
                 outcome, stats, now, lastOp, savedKeys, sawSaved, unlinkFailed, mergeRead, others>>

\* The analysis raises, or the worker process dies: the future holds the
\* exception.
ComputeRaise(i) ==
  /\ wpc[i] = "computing"
  /\ wpc' = [wpc EXCEPT ![i] = "raised"]
  /\ UNCHANGED <<building_tasks, pc, final, cache_data, files, backups, wcache, result,
                 outcome, stats, now, lastOp, savedKeys, sawSaved, unlinkFailed, mergeRead, others>>

Next ==
  \/ ValidateAndSubmit
  \/ \E i \in Tasks : Collect(i)
  \/ PeriodicMerge
  \/ FinalMerge
  \/ OpenMaster
  \/ FinishSave
  \/ Cleanup
  \/ \E i \in Tasks : Dispatch(i)
  \/ \E i \in Tasks : CheckCaches(i)
  \/ \E i \in Tasks : ComputeOk(i)
  \/ \E i \in Tasks : FinishWrite(i)
  \/ \E i \in Tasks : ComputeNone(i)
  \/ \E i \in Tasks : ComputeRaise(i)

Spec == Init /\ [][Next]_vars

\* ------------------------------------------------------------ SpecCache
\* One main manager (cache_data) and the files of NumCacheWorkers worker
\* managers; results with any timestamp and content are stored and merged.
CacheWorkers == 1..NumCacheWorkers
Results == [ts : 1..MaxTs, val : 1..NumVals]

InitCache ==
  /\ building_tasks = <<>>
  /\ pc = "cache"
  /\ final = FALSE
  /\ files = [p \in Paths |-> AbsentFile]
  /\ cache_data = EmptyCache
  /\ savedKeys = {}
  /\ backups = [p \in Paths |-> <<>>]
  /\ wpc = [i \in Tasks |-> "rejected"]
  /\ wcache = [i \in Tasks |-> EmptyCache]
  /\ result = [i \in Tasks |-> NoEntry]
  /\ outcome = [i \in Tasks |-> "-"]
  /\ stats = [failed_tasks |-> 0, successful_tasks |-> 0, completed_count |-> 0]
  /\ now = 2
  /\ lastOp = NoOp
  /\ sawSaved = {}
  /\ unlinkFailed = {}
  /\ mergeRead = {}
  /\ OthersIdle

\* store_fragility_curve(result) on the main manager.
CachePut ==
  /\ \E k \in Archetypes, e \in Results :
       /\ cache_data' = StoreFragilityCurve(cache_data, k, e)
       /\ lastOp' = [op |-> "put", k |-> k, e |-> e]
  /\ UNCHANGED <<building_tasks, pc, final, files, backups, wpc, wcache, result, outcome,
                 stats, now, savedKeys, sawSaved, unlinkFailed, mergeRead, others>>

\* A worker manager on its own file: load_cache, store_fragility_curve(result),
\* save_cache.
WorkerPut ==
  /\ \E w \in CacheWorkers, k \in Archetypes, e \in Results :
       /\ files' = SaveDump(files, CacheFilePath(w),
                            StoreFragilityCurve(LoadCache(w, files), k, e))
       /\ lastOp' = [op |-> "wput", k |-> k, e |-> e]
  /\ UNCHANGED <<building_tasks, pc, final, cache_data, backups, wpc, wcache, result, outcome,
                 stats, now, savedKeys, sawSaved, unlinkFailed, mergeRead, others>>

\* merge_worker_caches on the main manager.
CacheMerge ==
  /\ \E order \in Orders(WorkerCacheFiles(files)) :
       cache_data' = MergeWorkerCaches(cache_data, order, files)
  /\ lastOp' = [op |-> "merge", k |-> "A", e |-> NoEntry]
  /\ UNCHANGED <<building_tasks, pc, final, files, backups, wpc, wcache, result, outcome,
                 stats, now, savedKeys, sawSaved, unlinkFailed, mergeRead, others>>

NextCache ==
  \/ CachePut
  \/ WorkerPut
  \/ CacheMerge

SpecCache == InitCache /\ [][NextCache]_vars

\* ------------------------------------------------------------ SpecNames
\* A file name is a sequence of pieces: "fragility_cache.json" is
\* <<"fragility_cache", ".json">>, its first worker file
\* <<"fragility_cache", "_worker_", "w0000", ".json">>.
Extensions == {".json", ".dat"}
MasterNames == {<<"fragility_cache">> \o ext : ext \in {<<".json">>, <<".dat">>, <<>>}}

\* worker_id=f"w{i:04d}"
WorkerIds == {"w0000", "w0001"}

\* No run of the scheduler is under way.
RunIdle ==
  /\ building_tasks = <<>>
  /\ pc = "idle"
  /\ final = FALSE
  /\ files = [p \in Paths |-> AbsentFile]
  /\ cache_data = EmptyCache
  /\ savedKeys = {}
  /\ backups = [p \in Paths |-> <<>>]
  /\ wpc = [i \in Tasks |-> "rejected"]
  /\ wcache = [i \in Tasks |-> EmptyCache]
  /\ result = [i \in Tasks |-> NoEntry]
  /\ outcome = [i \in Tasks |-> "-"]
  /\ stats = [failed_tasks |-> 0, successful_tasks |-> 0, completed_count |-> 0]
  /\ now = 2
  /\ lastOp = NoOp
  /\ sawSaved = {}
  /\ unlinkFailed = {}
  /\ mergeRead = {}

\* Path.suffix and Path.stem
PathSuffix(name) ==
  IF Len(name) >= 2 /\ name[Len(name)] \in Extensions THEN <<name[Len(name)]>> ELSE <<>>
PathStem(name) == SubSeq(name, 1, Len(name) - Len(PathSuffix(name)))

\* __init__: f"{cache_name}_worker_{worker_id}{cache_ext}"
WorkerCacheName(master, worker_id) ==
  PathStem(master) \o <<"_worker_", worker_id>> \o PathSuffix(master)

\* _create_backup: cache_file_path.with_suffix(f".backup_{time}.json")
BackupName(name) == PathStem(name) \o <<".backup_T", ".json">>

\* base_cache_dir.glob(f"{stem}_worker_*.json"): the names that begin with
\* <stem>_worker_ and end with .json.
GlobWorkerCaches(master, names) ==
  {n \in names :
     /\ Len(n) >= Len(PathStem(master)) + 2
     /\ SubSeq(n, 1, Len(PathStem(master)) + 1) = PathStem(master) \o <<"_worker_">>
     /\ n[Len(n)] = ".json"}

InitNames ==
  /\ RunIdle
  /\ IdaIdle
  /\ ClassIdle
  /\ ValidIdle
  /\ RoundTripIdle
  /\ CityIdle
  /\ TrackerIdle
  /\ FitIdle
  /\ ManagerIdle
  /\ ScanIdle
  /\ cache_file \in MasterNames
  /\ dir = {}
  /\ glob_log = [op |-> "none", found |-> {}, before |-> {}]

\* save_cache of a manager on the file `name`: a backup if the file exists,
\* then the file.
SaveNamed(name) ==
  /\ dir' = dir \cup {name} \cup (IF name \in dir THEN {BackupName(name)} ELSE {})
  /\ UNCHANGED <<cache_file, glob_log, namesRest>>

\* The main manager saves the Master.
NamesMasterSave == SaveNamed(cache_file)

\* A worker's manager saves its worker cache file.
NamesWorkerSave == \E id \in WorkerIds : SaveNamed(WorkerCacheName(cache_file, id))

\* merge_worker_caches: the files it reads.
NamesMerge ==
  /\ glob_log' = [op |-> "merge", found |-> GlobWorkerCaches(cache_file, dir), before |-> dir]
  /\ UNCHANGED <<cache_file, dir, namesRest>>

\* cleanup_worker_cache_files: the files it unlinks.
NamesCleanup ==
  /\ glob_log' = [op |-> "cleanup", found |-> GlobWorkerCaches(cache_file, dir), before |-> dir]
  /\ dir' = dir \ GlobWorkerCaches(cache_file, dir)
  /\ UNCHANGED <<cache_file, namesRest>>

NextNames ==
  \/ NamesMasterSave
  \/ NamesWorkerSave
  \/ NamesMerge
  \/ NamesCleanup

SpecNames == InitNames /\ [][NextNames]_vars

\* -------------------------------------------------------------- SpecIDA
\* gm_ids and im_levels, by position.
GmIds == 1..NumGMs
ImLevels == 1..NumLevels

\* The intensities a configuration lists (pga_targets), in hundredths of g.
LevelValues == {5 * l : l \in ImLevels}

\* analysis_config['pga_targets']: the configured values in any order.
ConfiguredLevels == Orders(LevelValues)

\* What one time-history analysis can come to: it runs to the end, it stops
\* at a step that does not converge, it stops at a drift above
\* max_drift_ratio, or the model cannot be rebuilt (no result).
Analyses ==
  {[built |-> TRUE, analysis_success |-> TRUE, exceeded |-> FALSE],
   [built |-> TRUE, analysis_success |-> FALSE, exceeded |-> FALSE],
   [built |-> TRUE, analysis_success |-> FALSE, exceeded |-> TRUE],
   [built |-> FALSE, analysis_success |-> FALSE, exceeded |-> FALSE]}

\* Variant: only a drift above the limit counts as collapse.
CollapseByDriftOnly(a) == a.exceeded

\* run_single_analysis: 'collapse': max_idr > max_drift_ratio or not analysis_success
Collapse(a) == a.exceeded \/ ~a.analysis_success

\* run_single_analysis: the result dictionary.
SingleResult(gm, level, a) ==
  [gm_id |-> gm, pga_target |-> level, analysis_success |-> a.analysis_success,
   collapse |-> Collapse(a)]

InitIDA ==
  /\ RunIdle
  /\ NamesIdle
  /\ ClassIdle
  /\ ValidIdle
  /\ RoundTripIdle
  /\ CityIdle
  /\ TrackerIdle
  /\ FitIdle
  /\ ManagerIdle
  /\ ScanIdle
  /\ gm_index = 1
  /\ level_index = 1
  /\ collapsed = FALSE
  /\ all_results = <<>>
  /\ backend_runs = {}
  /\ im_levels \in ConfiguredLevels
  /\ backend_calls = <<>>

\* run_ida_for_gm, one turn of "for pga_level in self.im_levels".
RunLevel ==
  /\ gm_index \in GmIds
  /\ level_index \in ImLevels
  /\ ~collapsed
  /\ \E a \in Analyses :
       /\ backend_runs' = backend_runs \cup {<<gm_index, level_index>>}
       /\ backend_calls' = Append(backend_calls, <<gm_index, im_levels[level_index]>>)
       /\ all_results' = IF a.built
                         THEN Append(all_results, SingleResult(gm_index, level_index, a))
                         ELSE all_results
       /\ collapsed' = (a.built /\ SingleResult(gm_index, level_index, a).collapse)
  /\ level_index' = level_index + 1
  /\ UNCHANGED <<gm_index, im_levels, idaRest>>

\* run_ida_for_gm returns ("if collapsed: break" or the levels are used up)
\* and run_full_ida goes to the next ground motion.
NextGm ==
  /\ gm_index \in GmIds
  /\ collapsed \/ level_index \notin ImLevels
  /\ gm_index' = gm_index + 1
  /\ level_index' = 1
  /\ collapsed' = FALSE
  /\ UNCHANGED <<all_results, backend_runs, im_levels, backend_calls, idaRest>>

NextIDA ==
  \/ RunLevel
  \/ NextGm

SpecIDA == InitIDA /\ [][NextIDA]_vars

\* ------------------------------------------------------- SpecClassify
\* Strings are sequences of characters, footprint areas are in square
\* metres, heights in tenths of a metre, ages in years.  An attribute that
\* may be None is a record: `some` tells whether it is there.
MaxCalls == 2          \* calls of classify_building in one behaviour
MaxPolygons == 2       \* sub-polygons of a feature

\* datetime.now().year at the moments the program runs
Years == {2026, 2030, 2035}

EarthquakeYear == 1999
SmallThreshold == 150
LargeThreshold == 500

Some(x) == [some |-> TRUE, v |-> x]
NoneStr == [some |-> FALSE, v |-> <<>>]
NoneInt == [some |-> FALSE, v |-> 0]

DigitChars == <<"0", "1", "2", "3", "4", "5", "6", "7", "8", "9">>
LowerChars == <<"a", "b", "m", "r">>
UpperChars == <<"A", "B", "M", "R">>

IndexOf(seq, c) == CHOOSE i \in 1..Len(seq) : seq[i] = c
IsIn(seq, c) == \E i \in 1..Len(seq) : seq[i] = c

\* str.upper()
Upper(s) ==
  [i \in 1..Len(s) |->
     IF IsIn(LowerChars, s[i]) THEN UpperChars[IndexOf(LowerChars, s[i])] ELSE s[i]]

\* int() of a string of decimal digits
RECURSIVE IntOf(_)
IntOf(ds) ==
  IF ds = <<>> THEN 0
  ELSE 10 * IntOf(SubSeq(ds, 1, Len(ds) - 1)) + (IndexOf(DigitChars, ds[Len(ds)]) - 1)

\* The call raised ValueError.
Raised == [ok |-> FALSE, floor_count |-> 0, structural_system |-> "RC"]

\* parse_floor_info: "if not floor_str" raises, then
\* re.match(r'^(\d+)([A-Z])$', floor_str.upper()).
ParseFloorInfo(floor_str) ==
  IF ~floor_str.some \/ floor_str.v = <<>> THEN Raised
  ELSE LET u == Upper(floor_str.v)
           n == Len(u)
       IN IF /\ n >= 2
             /\ \A i \in 1..(n - 1) : IsIn(DigitChars, u[i])
             /\ IsIn(UpperChars, u[n])
          THEN [ok |-> TRUE,
                floor_count |-> IntOf(SubSeq(u, 1, n - 1)),
                structural_system |-> IF u[n] = "M" THEN "SC" ELSE "RC"]
          ELSE Raised

\* extract_floor_info, "for polygon in polygons": best is
\* (max_floor_count, best_structural_system).
RECURSIVE PolygonLoop(_, _)
PolygonLoop(polygons, best) ==
  IF polygons = <<>> THEN best
  ELSE LET polygon_floor == Head(polygons).floor
           parsed == ParseFloorInfo(polygon_floor)
       IN PolygonLoop(Tail(polygons),
                      IF /\ polygon_floor.some
                         /\ polygon_floor.v # <<>>
                         /\ parsed.ok
                         /\ parsed.floor_count > best.floor_count
                      THEN parsed
                      ELSE best)

\* extract_floor_info
ExtractFloorInfo(feature) ==
  IF feature.floor.some THEN ParseFloorInfo(feature.floor)
  ELSE IF feature.polygons = <<>> THEN Raised
  ELSE LET best == PolygonLoop(feature.polygons,
                               [ok |-> TRUE, floor_count |-> 0, structural_system |-> "RC"])
       IN IF best.floor_count = 0 THEN Raised ELSE best

\* extract_building_age, polygon_ages
PolygonAges(feature) ==
  {feature.polygons[i].age.v :
     i \in {j \in 1..Len(feature.polygons) :
              feature.polygons[j].age.some /\ feature.polygons[j].age.v > 0}}

SetMax(S) == CHOOSE m \in S : \A x \in S : x <= m

\* extract_building_age: the age and the counter of age_stats it adds to.
ExtractBuildingAge(feature, cy) ==
  IF feature.max_age.some /\ feature.max_age.v > 0
  THEN [age |-> feature.max_age.v, used |-> "used_max_age"]
  ELSE IF PolygonAges(feature) # {}
  THEN [age |-> SetMax(PolygonAges(feature)), used |-> "used_polygon_max_age"]
  ELSE [age |-> cy - EarthquakeYear, used |-> "used_default_age"]

\* determine_construction_era (extract_building_age never returns None)
DetermineConstructionEra(age, cy) ==
  IF cy - age <= EarthquakeYear THEN "PRE" ELSE "POST"

ClassifyAreaScaleSmallInclusive(area_sqm) ==
  IF area_sqm <= SmallThreshold THEN "S"
  ELSE IF area_sqm <= LargeThreshold THEN "M"
  ELSE "L"

\* classify_area_scale
ClassifyAreaScale(area_sqm) ==
  IF area_sqm < SmallThreshold THEN "S"
  ELSE IF area_sqm <= LargeThreshold THEN "M"
  ELSE "L"

\* get_area_scale_standards of ProjectConfig, and the same values of the
\* fallback of get_area_standards
RepresentativeArea == [S |-> 100, M |-> 300, L |-> 700]

\* get_representative_area
GetRepresentativeArea(area_scale) == RepresentativeArea[area_scale]

\* classify_building returned None.
NoProperties ==
  [some |-> FALSE,
   v |-> [floor_count |-> 0, structural_system |-> "RC", construction_era |-> "PRE",
          area_scale |-> "S", area_sqm |-> 0, representative_area_sqm |-> 0,
          height |-> 0, age |-> 0]]

\* Whether classify_building gets as far as extract_building_age.
ReachesAge(feature) ==
  /\ feature.area_sqm.some
  /\ feature.max_height.some
  /\ ExtractFloorInfo(feature).ok

\* classify_building with a classifier whose current_year is cy
ClassifyBuilding(feature, cy) ==
  IF ~ReachesAge(feature) THEN NoProperties
  ELSE LET floor == ExtractFloorInfo(feature)
           age == ExtractBuildingAge(feature, cy).age
           area_scale == ClassifyAreaScale(feature.area_sqm.v)
       IN Some([floor_count |-> floor.floor_count,
                structural_system |-> floor.structural_system,
                construction_era |-> DetermineConstructionEra(age, cy),
                area_scale |-> area_scale,
                area_sqm |-> feature.area_sqm.v,
                representative_area_sqm |-> GetRepresentativeArea(area_scale),
                height |-> feature.max_height.v,
                age |-> age])

\* get_archetype_code: f"{structural_system}-{construction_era}-{floor_count}F-{area_scale}"
GetArchetypeCode(p) ==
  <<p.structural_system, "-", p.construction_era, "-", p.floor_count, "F", "-", p.area_scale>>

\* The two records of test_geojson_processor and their variants.
Record1 ==
  [area_sqm |-> Some(120), max_height |-> Some(175), max_age |-> Some(30),
   floor |-> Some(<<"5", "R">>), polygons |-> <<>>]
Record2 ==
  [area_sqm |-> Some(800), max_height |-> Some(420), max_age |-> Some(35),
   floor |-> Some(<<"1", "2", "M">>), polygons |-> <<>>]

Areas == {120, 149, 150, 151, 499, 500, 501, 800}
RootFloors == {NoneStr, Some(<<>>), Some(<<"5", "r">>), Some(<<"R", "5">>)}
PolygonFloors == {NoneStr, Some(<<"3", "R">>), Some(<<"8", "m">>), Some(<<"0", "R">>)}
PolygonAgeValues == {NoneInt, Some(10), Some(40)}

PolygonLists(S) == UNION {[1..n -> S] : n \in 0..MaxPolygons}

Features ==
  {Record1, Record2}
  \cup {[Record1 EXCEPT !.area_sqm = Some(a)] : a \in Areas}
  \cup {[Record1 EXCEPT !.max_height = NoneInt]}
  \cup {[Record1 EXCEPT !.floor = r, !.polygons = ps] :
          r \in RootFloors,
          ps \in PolygonLists({[floor |-> f, age |-> NoneInt] : f \in PolygonFloors})}
  \cup {[Record1 EXCEPT !.max_age = m, !.polygons = ps] :
          m \in {NoneInt, Some(0)},
          ps \in PolygonLists({[floor |-> NoneStr, age |-> a] : a \in PolygonAgeValues})}

\* BuildingProperties.__getstate__
GetStateLegacy(p) ==
  [floor_count |-> p.floor_count, structural_system |-> p.structural_system,
   construction_era |-> p.construction_era, area_scale |-> p.area_scale,
   area_sqm |-> p.area_sqm, height |-> p.height, age |-> p.age]

GetState(p) ==
  [floor_count |-> p.floor_count, structural_system |-> p.structural_system,
   construction_era |-> p.construction_era, area_scale |-> p.area_scale,
   area_sqm |-> p.area_sqm, representative_area_sqm |-> p.representative_area_sqm,
   height |-> p.height, age |-> p.age]

\* BuildingProperties.__setstate__:
\* state.get('representative_area_sqm', state['area_sqm'])
SetState(state) ==
  [floor_count |-> state.floor_count, structural_system |-> state.structural_system,
   construction_era |-> state.construction_era, area_scale |-> state.area_scale,
   area_sqm |-> state.area_sqm,
   representative_area_sqm |-> IF "representative_area_sqm" \in DOMAIN state
                               THEN state.representative_area_sqm
                               ELSE state.area_sqm,
   height |-> state.height, age |-> state.age]

\* ArchetypeParameterGenerator.__init__
TypicalStoryHeight == 350
UnitWeightPerSqm == 1000

\* 'ranges' of the rows of rc_parameters and sc_parameters (the same for PRE
\* and POST), in the order of the lists
RangesRC ==
  [low |-> << <<7, 7>>, <<3, 6>>, <<1, 2>> >>,
   mid |-> << <<11, 14>>, <<5, 10>>, <<1, 4>> >>,
   high |-> << <<11, 999>>, <<6, 10>>, <<1, 5>> >>,
   very_high |-> << <<20, 999>>, <<8, 19>>, <<1, 7>> >>]
RangesSC ==
  [low |-> << <<5, 5>>, <<3, 4>>, <<1, 2>> >>,
   mid |-> << <<11, 12>>, <<7, 10>>, <<4, 6>>, <<1, 3>> >>,
   high |-> << <<12, 999>>, <<8, 11>>, <<5, 7>>, <<1, 4>> >>]

\* 'alpha' of the tables, in thousandths
AlphaRC == [PRE |-> 1, POST |-> 20]
AlphaSC == [PRE |-> 1, POST |-> 25]

\* get_rc_story_parameters, height_category
HeightCategoryRC(floor_count) ==
  IF floor_count <= 7 THEN "low"
  ELSE IF floor_count <= 14 THEN "mid"
  ELSE IF floor_count <= 19 THEN "high"
  ELSE "very_high"

\* get_sc_story_parameters, height_category
HeightCategorySC(floor_count) ==
  IF floor_count <= 5 THEN "low"
  ELSE IF floor_count <= 11 THEN "mid"
  ELSE "high"

\* "for i, (floor_min, floor_max) in enumerate(params['ranges'])": the first
\* row whose range holds the story, the last row if none does.
RowIndex(ranges, story) ==
  LET holds == {i \in 1..Len(ranges) : ranges[i][1] <= story /\ story <= ranges[i][2]}
  IN IF holds = {} THEN Len(ranges) ELSE CHOOSE i \in holds : \A j \in holds : i <= j

\* get_rc_story_parameters / get_sc_story_parameters: the row of the table
\* the section and material numbers are read from, named by its place in the
\* table, and its alpha.
StoryRow(p, story) ==
  LET rc == p.structural_system = "RC"
      cat == IF rc THEN HeightCategoryRC(p.floor_count) ELSE HeightCategorySC(p.floor_count)
  IN [table |-> IF rc THEN "rc_parameters" ELSE "sc_parameters",
      era |-> p.construction_era,
      height_category |-> cat,
      i |-> RowIndex(IF rc THEN RangesRC[cat] ELSE RangesSC[cat], story),
      alpha |-> IF rc THEN AlphaRC[p.construction_era] ELSE AlphaSC[p.construction_era]]

Max(a, b) == IF a >= b THEN a ELSE b

\* estimate_column_count
EstimateColumnCount(area_sqm, area_scale) ==
  IF area_scale = "S" THEN Max(4, area_sqm \div 30)
  ELSE IF area_scale = "M" THEN Max(6, area_sqm \div 40)
  ELSE Max(8, area_sqm \div 50)

\* _get_material_type
GetMaterialType(structural_system) ==
  IF structural_system = "SC" THEN "steel" ELSE "concrete"

\* calculate_rc_story_parameters / calculate_sc_story_parameters.  The
\* floating-point results are written by what they are computed from:
\*   mass = mass_kgf / 980.665 (positive for a positive area, so the
\*          correction of _validate_mass_calculation is not taken),
\*   k    = column_count * (number of the row),
\*   Fy   = column_count * (number of the row)            for RC,
\*          column_count * (number of the row) / sqrt(span_area * 10000) * 2
\*                                                         for SC.
CalculateStoryParameters(p, story) ==
  LET row == StoryRow(p, story)
      column_count == EstimateColumnCount(p.representative_area_sqm, p.area_scale)
  IN [story |-> story,
      mass_kgf |-> UnitWeightPerSqm * p.representative_area_sqm,
      k |-> [column_count |-> column_count, row |-> row],
      Fy |-> [column_count |-> column_count, row |-> row,
              span_area |-> IF p.structural_system = "RC" THEN 0
                            ELSE p.representative_area_sqm],
      alpha |-> row.alpha,
      story_height |-> TypicalStoryHeight,
      material_type |-> GetMaterialType(p.structural_system)]

\* generate_stick_model_parameters: model.stories
GenerateStickModelParameters(p) ==
  [some |-> TRUE,
   stories |-> [story \in 1..p.floor_count |-> CalculateStoryParameters(p, story)]]

\* No model was generated.
NoModel == [some |-> FALSE, stories |-> <<>>]

InitClassify ==
  /\ RunIdle
  /\ NamesIdle
  /\ IdaIdle
  /\ ValidIdle
  /\ RoundTripIdle
  /\ CityIdle
  /\ TrackerIdle
  /\ FitIdle
  /\ ManagerIdle
  /\ ScanIdle
  /\ year \in Years
  /\ current_year = 0
  /\ age_stats = ZeroStats
  /\ area_standards = "None"
  /\ calls = <<>>
  /\ models = <<>>

\* The calendar year changes.
NewYear ==
  /\ \E y \in Years : y > year /\ year' = y
  /\ UNCHANGED <<current_year, age_stats, area_standards, calls, models, classRest>>

\* BuildingClassifier()
Construct ==
  /\ Len(calls) < MaxCalls
  /\ current_year' = year
  /\ age_stats' = ZeroStats
  /\ area_standards' = "None"
  /\ UNCHANGED <<year, calls, models, classRest>>

\* classifier.classify_building(feature)
Classify ==
  /\ current_year # 0
  /\ Len(calls) < MaxCalls
  /\ \E feature \in Features :
       LET out == ClassifyBuilding(feature, current_year)
           used == ExtractBuildingAge(feature, current_year).used
           after == IF ReachesAge(feature)
                    THEN [age_stats EXCEPT !.total_processed = @ + 1, ![used] = @ + 1]
                    ELSE age_stats
       IN /\ calls' = Append(calls, [feature |-> feature, out |-> out, year |-> year,
                                     stats_before |-> age_stats, stats_after |-> after])
          /\ age_stats' = after
          /\ area_standards' = IF out.some THEN "loaded" ELSE area_standards
          /\ models' = Append(models, NoModel)
  /\ UNCHANGED <<year, current_year, classRest>>

\* The classified building goes to a worker process (pickled by __getstate__,
\* rebuilt by __setstate__), whose analyzer generates its stick model.
Generate(i) ==
  /\ i \in 1..Len(calls)
  /\ calls[i].out.some
  /\ ~models[i].some
  /\ models' = [models EXCEPT
                  ![i] = GenerateStickModelParameters(SetState(GetState(calls[i].out.v)))]
  /\ UNCHANGED <<year, current_year, age_stats, area_standards, calls, classRest>>

NextClassify ==
  \/ NewYear
  \/ Construct
  \/ Classify
  \/ \E i \in 1..MaxCalls : Generate(i)

SpecClassify == InitClassify /\ [][NextClassify]_vars


\* ------------------------------------------------------- SpecValidate
\* Probabilities are in hundredths.  The levels '5弱', '5強', '6弱', '6強' are
\* written "5-", "5+", "6-", "6+".

\* validation_rules['required_intensity_levels']['levels']
RequiredLevels == <<"3", "4", "5-", "5+", "6-", "6+", "7">>

\* validation_rules: probability_range max, monotonicity_tolerance
\* max_decrease, reasonable_probability_levels
ProbabilityMax == 100
MaxDecrease == 5
Level3Max == 1
Level4Max == 5
Level7Min == 10

\* The probabilities the curves are drawn from.
ProbValues == {0, 5, 11, 120}

LevelSet == {RequiredLevels[i] : i \in 1..Len(RequiredLevels)}

\* The curves: any set of the levels, any of the probabilities for each.
Curves == UNION {[S -> ProbValues] : S \in SUBSET LevelSet}

Finding(check_name, passed, severity) ==
  [check_name |-> check_name, passed |-> passed, severity |-> severity]

\* Check 1: missing_levels
Completeness(curve) ==
  IF \E l \in LevelSet : l \notin DOMAIN curve
  THEN Finding("completeness", FALSE, "error")
  ELSE Finding("completeness", TRUE, "info")

\* Check 2: invalid_probs
ProbabilityRange(curve) ==
  IF \E l \in DOMAIN curve : ~(0 <= curve[l] /\ curve[l] <= ProbabilityMax)
  THEN Finding("probability_range", FALSE, "error")
  ELSE Finding("probability_range", TRUE, "info")

\* Check 3, made only "if all(level in fragility_curve for level in
\* required_levels)": monotonicity_violations
MonotonicityEndToEnd(curve) ==
  IF \A l \in LevelSet : l \in DOMAIN curve
  THEN IF curve[RequiredLevels[1]] - curve[RequiredLevels[Len(RequiredLevels)]] > MaxDecrease
       THEN <<Finding("monotonicity", FALSE, "warning")>>
       ELSE <<Finding("monotonicity", TRUE, "info")>>
  ELSE <<>>

Monotonicity(curve) ==
  IF \A l \in LevelSet : l \in DOMAIN curve
  THEN IF \E i \in 2..Len(RequiredLevels) :
            curve[RequiredLevels[i - 1]] - curve[RequiredLevels[i]] > MaxDecrease
       THEN <<Finding("monotonicity", FALSE, "warning")>>
       ELSE <<Finding("monotonicity", TRUE, "info")>>
  ELSE <<>>

\* Check 4: reasonableness_issues
Reasonableness(curve) ==
  IF \/ "3" \in DOMAIN curve /\ curve["3"] > Level3Max
     \/ "4" \in DOMAIN curve /\ curve["4"] > Level4Max
     \/ "7" \in DOMAIN curve /\ curve["7"] < Level7Min
  THEN Finding("reasonableness", FALSE, "warning")
  ELSE Finding("reasonableness", TRUE, "info")

\* validate_fragility_curve: the findings, in order
ValidateFragilityCurve(curve) ==
  <<Completeness(curve), ProbabilityRange(curve)>>
  \o Monotonicity(curve)
  \o <<Reasonableness(curve)>>

InitValidate ==
  /\ RunIdle
  /\ NamesIdle
  /\ IdaIdle
  /\ ClassIdle
  /\ RoundTripIdle
  /\ CityIdle
  /\ TrackerIdle
  /\ FitIdle
  /\ ManagerIdle
  /\ ScanIdle
  /\ fragility_curve \in Curves
  /\ validation = <<>>

\* fragility_validator.validate_fragility_curve(item_id, fragility_curve)
ValidateCurve ==
  /\ validation = <<>>
  /\ validation' = ValidateFragilityCurve(fragility_curve)
  /\ UNCHANGED <<fragility_curve, validRest>>

NextValidate == ValidateCurve

SpecValidate == InitValidate /\ [][NextValidate]_vars

\* ------------------------------------------------------ SpecRoundTrip
\* Probabilities are in thousandths.  The JSON text of a cache file is
\* written as its 'cache_entries' object, each number as the characters
\* json.dump writes for it.  Of the fields of a FragilityCurveResult the
\* archetype code and the probabilities are modelled.
MaxStores == 2         \* calls of store_fragility_curve before the save

RtMasterPath == "fragility_cache.json"
RtWorkerPath == "fragility_cache_worker_w0000.json"

\* __init__: cache_file_path of a manager
RtCachePath(worker_id) == IF worker_id = "None" THEN RtMasterPath ELSE RtWorkerPath

RtCodes == {"RC-PRE-5F-S", "SC-POST-10F-L"}

\* Curves over the seven bins: the one of test_validators, the defaults of
\* create_fragility_curve_dict, and the ends of the range.
RtCurves ==
  {[i \in 1..7 |-> c[i]] :
     c \in {<<1, 5, 20, 50, 150, 350, 650>>,
            <<0, 0, 10, 10, 100, 100, 300>>,
            <<0, 999, 1000, 1000, 1000, 1000, 1000>>}}

CurveOf(c) == [l \in LevelSet |-> c[IndexOf(RequiredLevels, l)]]

RtResults ==
  {[archetype_code |-> code, collapse_probabilities |-> CurveOf(c)] :
     code \in RtCodes, c \in RtCurves}

EmptyMap == [k \in {} |-> 0]
MapPut(m, k, v) == [x \in DOMAIN m \cup {k} |-> IF x = k THEN v ELSE m[x]]

Digit(n) == DigitChars[n + 1]

FloatReprTwoDecimals(n) ==
  <<Digit(n \div 1000), ".", Digit((n \div 100) % 10), Digit((n \div 10) % 10)>>

\* json.dump of a float: its decimal digits (float.__repr__)
FloatRepr(n) ==
  <<Digit(n \div 1000), ".", Digit((n \div 100) % 10), Digit((n \div 10) % 10),
    Digit(n % 10)>>

\* 10^n
RECURSIVE Pow10(_)
Pow10(n) == IF n = 0 THEN 1 ELSE 10 * Pow10(n - 1)

\* json.load of a number: the value of its digits
ParseFloat(token) ==
  LET dot == IndexOf(token, ".")
      frac == SubSeq(token, dot + 1, Len(token))
  IN IntOf(SubSeq(token, 1, dot - 1)) * 1000 + IntOf(frac) * Pow10(3 - Len(frac))

\* save_cache: cache_entries[key] = asdict(result), then json.dump
DumpEntries(cache) ==
  [key \in DOMAIN cache |->
     [archetype_code |-> cache[key].archetype_code,
      collapse_probabilities |->
        [l \in DOMAIN cache[key].collapse_probabilities |->
           FloatRepr(cache[key].collapse_probabilities[l])]]]

\* load_cache: json.load, then FragilityCurveResult(**entry_data) for each key
LoadEntries(text) ==
  [key \in DOMAIN text |->
     [archetype_code |-> text[key].archetype_code,
      collapse_probabilities |->
        [l \in DOMAIN text[key].collapse_probabilities |->
           ParseFloat(text[key].collapse_probabilities[l])]]]

RtAbsent == [exists |-> FALSE, text |-> EmptyMap]
RtFile(cache) == [exists |-> TRUE, text |-> DumpEntries(cache)]

\* load_cache of a manager with main_cache_file_path = main_path and
\* cache_file_path = own_path: a worker loads the Master when it exists, any
\* manager loads its own file when the Master was not loaded and the file
\* exists.
RtLoadCache(is_main_worker, main_path, own_path, disk) ==
  IF ~is_main_worker /\ disk[main_path].exists
  THEN [loaded |-> TRUE, source |-> main_path,
        cache_data |-> LoadEntries(disk[main_path].text)]
  ELSE IF disk[own_path].exists
  THEN [loaded |-> TRUE, source |-> own_path,
        cache_data |-> LoadEntries(disk[own_path].text)]
  ELSE [loaded |-> TRUE, source |-> "none", cache_data |-> EmptyMap]

\* _generate_cache_key: strip().upper() leaves these codes as they are
RtCacheKey(archetype_code) == archetype_code

\* A manager, main or worker, was constructed (and has loaded its cache) in a
\* directory where the Master is absent or was saved by an earlier run.
InitRoundTrip ==
  /\ RunIdle
  /\ NamesIdle
  /\ IdaIdle
  /\ ClassIdle
  /\ ValidIdle
  /\ CityIdle
  /\ TrackerIdle
  /\ FitIdle
  /\ ManagerIdle
  /\ ScanIdle
  /\ \E worker_id \in {"None", "w0000"}, earlier \in {EmptyMap} \cup {MapPut(EmptyMap, RtCacheKey(r.archetype_code), r) : r \in RtResults} :
       /\ rt_disk = [p \in {RtMasterPath, RtWorkerPath} |->
                       IF p = RtMasterPath /\ DOMAIN earlier # {} THEN RtFile(earlier)
                       ELSE RtAbsent]
       /\ rt_manager = [worker_id |-> worker_id,
                        cache_data |-> RtLoadCache(worker_id = "None", RtMasterPath,
                                                   RtCachePath(worker_id), rt_disk).cache_data,
                        phase |-> "open", stores |-> 0]
  /\ rt_new = [loaded |-> FALSE, source |-> "none", cache_data |-> EmptyMap]

\* store_fragility_curve(result)
RtStore ==
  /\ rt_manager.phase = "open"
  /\ rt_manager.stores < MaxStores
  /\ \E r \in RtResults :
       rt_manager' = [rt_manager EXCEPT
                        !.cache_data = MapPut(@, RtCacheKey(r.archetype_code), r),
                        !.stores = @ + 1]
  /\ UNCHANGED <<rt_disk, rt_new, rtRest>>

\* save_cache (the backup copy it makes of an existing file is not a file
\* load_cache reads)
RtSave ==
  /\ rt_manager.phase = "open"
  /\ rt_disk' = [rt_disk EXCEPT ![RtCachePath(rt_manager.worker_id)] = RtFile(rt_manager.cache_data)]
  /\ rt_manager' = [rt_manager EXCEPT !.phase = "saved"]
  /\ UNCHANGED <<rt_new, rtRest>>

\* load_cache of the same manager (or of a new manager made with the same
\* arguments)
RtReload ==
  /\ rt_manager.phase = "saved"
  /\ rt_new' = RtLoadCache(rt_manager.worker_id = "None", RtMasterPath,
                           RtCachePath(rt_manager.worker_id), rt_disk)
  /\ rt_manager' = [rt_manager EXCEPT !.phase = "loaded"]
  /\ UNCHANGED <<rt_disk, rtRest>>

\* FragilityCacheManager(path of the file that was saved)
RtNewManager ==
  /\ rt_manager.phase = "saved"
  /\ rt_new' = RtLoadCache(TRUE, RtCachePath(rt_manager.worker_id),
                           RtCachePath(rt_manager.worker_id), rt_disk)
  /\ rt_manager' = [rt_manager EXCEPT !.phase = "new"]
  /\ UNCHANGED <<rt_disk, rtRest>>

NextRoundTrip ==
  \/ RtStore
  \/ RtSave
  \/ RtReload
  \/ RtNewManager

SpecRoundTrip == InitRoundTrip /\ [][NextRoundTrip]_vars

\* ------------------------------------------------------------- SpecCity
\* CityLevelFragilityAnalysis.run_complete_analysis: the input validation,
\* the batch classification and the tasks given to the worker pool.
MaxBuildings == 2      \* buildings classify_buildings_batch returns at most

\* What a run is given: the three paths, whether the inventory is a valid
\* GeoJSON, the number of valid records a scan of the ground-motion
\* directory finds, and the number of buildings that classify.
CityInputs ==
  {i \in [geojson_exists : BOOLEAN, geojson_valid : BOOLEAN,
          gm_directory_exists : BOOLEAN, gm_list_exists : BOOLEAN,
          gm_records : 0..NumGMs, buildings : 0..MaxBuildings] :
     /\ i.geojson_valid => i.geojson_exists
     /\ i.gm_records > 0 => i.gm_directory_exists
     /\ i.buildings > 0 => i.geojson_valid}

\* validate_inputs: the three paths exist and the inventory is a valid
\* GeoJSON; the number of ground-motion files is only logged.
ValidateInputs(i) ==
  /\ i.geojson_exists
  /\ i.gm_directory_exists
  /\ i.gm_list_exists
  /\ i.geojson_valid

InitCity ==
  /\ RunIdle
  /\ NamesIdle
  /\ IdaIdle
  /\ ClassIdle
  /\ ValidIdle
  /\ RoundTripIdle
  /\ TrackerIdle
  /\ FitIdle
  /\ ManagerIdle
  /\ ScanIdle
  /\ city_inputs \in CityInputs
  /\ city_pc = "start"
  /\ city_tasks = <<>>

\* run_complete_analysis, step 1: "if not self.validate_inputs(): raise".
CityValidate ==
  /\ city_pc = "start"
  /\ city_pc' = IF ValidateInputs(city_inputs) THEN "validated" ELSE "raised"
  /\ UNCHANGED <<city_inputs, city_tasks, cityRest>>

\* Step 2: classify_buildings_batch; no building classified raises.
CityClassify ==
  /\ city_pc = "validated"
  /\ IF city_inputs.buildings = 0
     THEN /\ city_pc' = "raised"
          /\ city_tasks' = city_tasks
     ELSE /\ city_pc' = "pool"
          /\ city_tasks' = [t \in 1..city_inputs.buildings |-> "queued"]
  /\ UNCHANGED <<city_inputs, cityRest>>

\* process_buildings_parallel: the pool takes the next task.
CityDispatch(t) ==
  /\ city_pc = "pool"
  /\ t \in DOMAIN city_tasks
  /\ city_tasks[t] = "queued"
  /\ \A u \in 1..(t - 1) : city_tasks[u] # "queued"
  /\ city_tasks' = [city_tasks EXCEPT ![t] = "running"]
  /\ UNCHANGED <<city_inputs, city_pc, cityRest>>

\* worker_analyze_building: run_full_ida sweeps get_available_gm_ids(); with
\* no record the results are empty and the task fails, with records the
\* analysis succeeds or fails.
CityAnalyze(t) ==
  /\ city_pc = "pool"
  /\ t \in DOMAIN city_tasks
  /\ city_tasks[t] = "running"
  /\ \E r \in IF city_inputs.gm_records = 0 THEN {"failed"} ELSE {"ok", "failed"} :
       city_tasks' = [city_tasks EXCEPT ![t] = r]
  /\ UNCHANGED <<city_inputs, city_pc, cityRest>>

\* Every future is collected: the run goes on to its reports and returns.
CityReturn ==
  /\ city_pc = "pool"
  /\ \A t \in DOMAIN city_tasks : city_tasks[t] \in {"ok", "failed"}
  /\ city_pc' = "returned"
  /\ UNCHANGED <<city_inputs, city_tasks, cityRest>>

NextCity ==
  \/ CityValidate
  \/ CityClassify
  \/ \E t \in 1..MaxBuildings : CityDispatch(t)
  \/ \E t \in 1..MaxBuildings : CityAnalyze(t)
  \/ CityReturn

SpecCity == InitCity /\ [][NextCity]_vars

\* ---------------------------------------------------------- SpecTracker
\* DetailedProgressTracker used by several threads: update_task_completion
\* and report_progress, both under the tracker's threading.Lock.
NumThreads == 2        \* threads that call the tracker
MaxClock == 3          \* ticks of the wall clock
MaxReports == 1        \* calls of report_progress made by the threads themselves
ReportInterval == 2    \* report_interval, in ticks

Threads == 1..NumThreads

\* __init__ with total_tasks = NumTasks, at time 0.
NewTracker ==
  [total_tasks |-> NumTasks, completed_tasks |-> 0, successful_tasks |-> 0,
   failed_tasks |-> 0, cache_hits |-> 0, new_analyses |-> 0, last_report_time |-> 0]

\* update_task_completion, the counters.
CountTask(t, success, cache_hit) ==
  [t EXCEPT !.completed_tasks = @ + 1,
            !.successful_tasks = IF success THEN @ + 1 ELSE @,
            !.cache_hits = IF success /\ cache_hit THEN @ + 1 ELSE @,
            !.new_analyses = IF success /\ ~cache_hit THEN @ + 1 ELSE @,
            !.failed_tasks = IF success THEN @ ELSE @ + 1]

\* should_report_progress
ShouldReportProgress(t, current_time) ==
  current_time - t.last_report_time >= ReportInterval

\* get_current_progress: the snapshot handed to the callbacks.
GetCurrentProgress(t, current_time) ==
  [completed_tasks |-> t.completed_tasks,
   successful_tasks |-> t.successful_tasks,
   failed_tasks |-> t.failed_tasks,
   cache_hits |-> t.cache_hits,
   new_analyses |-> t.new_analyses,
   estimated_remaining_seconds |->
     IF t.completed_tasks > 0
     THEN ((t.total_tasks - t.completed_tasks) * current_time) \div t.completed_tasks
     ELSE 0]

InitTracker ==
  /\ RunIdle
  /\ NamesIdle
  /\ IdaIdle
  /\ ClassIdle
  /\ ValidIdle
  /\ RoundTripIdle
  /\ CityIdle
  /\ FitIdle
  /\ ManagerIdle
  /\ ScanIdle
  /\ pt_tracker = NewTracker
  /\ pt_lock = 0
  /\ pt_clock = 0
  /\ pt_pc = [th \in Threads |-> "idle"]
  /\ pt_snapshots = <<>>

\* The wall clock advances.
TrackerTick ==
  /\ pt_clock < MaxClock
  /\ pt_clock' = pt_clock + 1
  /\ UNCHANGED <<pt_tracker, pt_lock, pt_pc, pt_snapshots, trackerRest>>

\* update_task_completion: "with self.lock" is entered, the task is counted,
\* and either the interval has not elapsed (the lock is released and the call
\* returns) or report_progress is called with the lock still held.
UpdateTaskCompletion(th, success, cache_hit) ==
  /\ pt_pc[th] = "idle"
  /\ pt_lock = 0
  /\ pt_tracker.completed_tasks < pt_tracker.total_tasks
  /\ pt_tracker' = CountTask(pt_tracker, success, cache_hit)
  /\ IF ShouldReportProgress(pt_tracker, pt_clock)
     THEN /\ pt_lock' = th
          /\ pt_pc' = [pt_pc EXCEPT ![th] = "report in update"]
     ELSE /\ pt_lock' = 0
          /\ pt_pc' = pt_pc
  /\ UNCHANGED <<pt_clock, pt_snapshots, trackerRest>>

\* A thread calls report_progress itself.
CallReportProgress(th) ==
  /\ pt_pc[th] = "idle"
  /\ Len(pt_snapshots) + Cardinality({u \in Threads : pt_pc[u] = "report"}) < MaxReports
  /\ pt_pc' = [pt_pc EXCEPT ![th] = "report"]
  /\ UNCHANGED <<pt_tracker, pt_lock, pt_clock, pt_snapshots, trackerRest>>

\* report_progress: "with self.lock" is entered when the lock is free (a
\* threading.Lock is not reentrant), the timer is reset, the snapshot is
\* given to the callbacks, the lock is released and the callers return.
ReportProgress(th) ==
  /\ pt_pc[th] \in {"report", "report in update"}
  /\ pt_lock = 0
  /\ pt_tracker' = [pt_tracker EXCEPT !.last_report_time = pt_clock]
  /\ pt_snapshots' = Append(pt_snapshots, GetCurrentProgress(pt_tracker, pt_clock))
  /\ pt_pc' = [pt_pc EXCEPT ![th] = "idle"]
  /\ UNCHANGED <<pt_lock, pt_clock, trackerRest>>

NextTracker ==
  \/ TrackerTick
  \/ \E th \in Threads, success, cache_hit \in BOOLEAN :
       UpdateTaskCompletion(th, success, cache_hit)
  \/ \E th \in Threads : CallReportProgress(th)
  \/ \E th \in Threads : ReportProgress(th)

SpecTracker == InitTracker /\ [][NextTracker]_vars

\* -------------------------------------------------------------- SpecFit
\* analyze_building_archetype, steps 4 and 5: FragilityAnalyzer fits the
\* curves of the damage states and exports the collapse probabilities.

\* analysis_config['damage_states']: IDR thresholds in thousandths.
DamageStates == [Slight |-> 5, Moderate |-> 15, Extensive |-> 35, Complete |-> 80]

\* generate_enhanced_pga_fragility_curve: the state of the highest threshold.
CollapseDamageState ==
  CHOOSE ds \in DOMAIN DamageStates :
    \A other \in DOMAIN DamageStates : DamageStates[other] <= DamageStates[ds]

\* fit_lognormal_fragility_curve: the inverse-normal regression, the direct
\* fit of the lognormal CDF, the single-point estimate, in that order; the
\* first that gives parameters answers, "none" when no one does.
FitMethods == <<"standard", "curve_fit", "simple">>

FitLognormalFragilityCurve(usable) ==
  IF \E n \in 1..Len(FitMethods) : FitMethods[n] \in usable
  THEN FitMethods[CHOOSE n \in 1..Len(FitMethods) :
                    /\ FitMethods[n] \in usable
                    /\ \A m \in 1..(n - 1) : FitMethods[m] \notin usable]
  ELSE "none"

\* The IDA results of an archetype, by what they allow: whether the demand
\* regression has its three points, the damage states for which it gives a
\* positive median and dispersion, and for each damage state the methods of
\* fit_lognormal_fragility_curve that give parameters.
FitData ==
  {d \in [psdm_regression : BOOLEAN,
          psdm_states : SUBSET {"Extensive", CollapseDamageState},
          traditional : [DOMAIN DamageStates -> {{}, {"simple"}, {"standard", "simple"}}]] :
     /\ ~d.psdm_regression => d.psdm_states = {}
     /\ d.traditional["Slight"] = d.traditional["Moderate"]
     /\ d.traditional["Moderate"] = d.traditional["Extensive"]}

\* _fit_fragility_curves_traditional: the states fit_lognormal_fragility_curve
\* gave parameters for.
FitFragilityCurvesTraditional(d) ==
  {ds \in DOMAIN DamageStates : FitLognormalFragilityCurve(d.traditional[ds]) # "none"}

InitFit ==
  /\ RunIdle
  /\ NamesIdle
  /\ IdaIdle
  /\ ClassIdle
  /\ ValidIdle
  /\ RoundTripIdle
  /\ CityIdle
  /\ TrackerIdle
  /\ ManagerIdle
  /\ ScanIdle
  /\ fit_data \in FitData
  /\ fit_pc = "fit"
  /\ fragility_parameters = {}
  /\ fragility_params = {}
  /\ fit_methods = {}

\* fit_all_fragility_curves, steps 1 and 2: the regression and the parameters
\* derived from it; with parameters for some state they are kept in
\* self.fragility_parameters and returned.
FitPsdm ==
  /\ fit_pc = "fit"
  /\ fit_methods' = fit_methods \cup {"psdm"}
  /\ IF fit_data.psdm_regression /\ fit_data.psdm_states # {}
     THEN /\ fragility_parameters' = fit_data.psdm_states
          /\ fragility_params' = fit_data.psdm_states
          /\ fit_pc' = "fitted"
     ELSE /\ UNCHANGED <<fragility_parameters, fragility_params>>
          /\ fit_pc' = "fallback"
  /\ UNCHANGED <<fit_data, fitRest>>

\* fit_all_fragility_curves: "return self._fit_fragility_curves_traditional()".
FitTraditional ==
  /\ fit_pc = "fallback"
  /\ fit_methods' = fit_methods \cup {"traditional"}
  /\ fragility_params' = FitFragilityCurvesTraditional(fit_data)
  /\ fit_pc' = "fitted"
  /\ UNCHANGED <<fit_data, fragility_parameters, fitRest>>

\* analyze_building_archetype: "if not fragility_params: return None", then
\* export_standard_fragility_result, whose curve is empty when
\* self.fragility_parameters is empty or lacks the collapse state, and
\* "if not standard_result: return None".
FitExport ==
  /\ fit_pc = "fitted"
  /\ fit_pc' = IF fragility_params = {} THEN "failed"
               ELSE IF fragility_parameters = {} THEN "failed"
               ELSE IF CollapseDamageState \notin fragility_parameters THEN "failed"
               ELSE "stored"
  /\ UNCHANGED <<fit_data, fragility_parameters, fragility_params, fit_methods, fitRest>>

NextFit ==
  \/ FitPsdm
  \/ FitTraditional
  \/ FitExport

SpecFit == InitFit /\ [][NextFit]_vars

\* ----------------------------------------------------------- SpecManager
\* One FragilityCacheManager over its life: __init__ (load_cache),
\* store_fragility_curve, get_fragility_curve with and without check_updates
\* (reload_cache_if_modified, load_cache), save_cache, and the writes of
\* other processes to the Master file.
MaxManagerCalls == 4   \* calls on the manager plus writes by other processes
ViewLen == 4           \* reads of one file that one load_cache could make at most

MaxRetries == 3        \* "max_retries = 3"
ReloadEvery == 50      \* "self.stats.total_requests % 50 == 0"

MgPaths == {"master", "worker"}
MgKeys == {"RC-PRE-5F-S", "SC-POST-10F-L"}

\* CacheStatistics as saved in a file: the counters of the manager that saved.
MgFileStats ==
  {[cache_hits |-> 0, cache_misses |-> 0, total_requests |-> 0],
   [cache_hits |-> 40, cache_misses |-> 9, total_requests |-> 49]}

\* The entries of a file written by another process: 1 stands for a result
\* computed elsewhere, 2 for a result given to store_fragility_curve here.
MgFileEntries == {EmptyMap} \cup {MapPut(EmptyMap, k, 1) : k \in MgKeys}

MgAbsent == [exists |-> FALSE, entries |-> EmptyMap,
             stats |-> [cache_hits |-> 0, cache_misses |-> 0, total_requests |-> 0],
             mtime |-> 0]

\* What the reads of one file give during one load_cache, attempt by attempt:
\* "torn" is a JSONDecodeError (a writer is between open and dump), "broken"
\* any other exception (undecodable bytes, a top level that is no object).
MgViews ==
  {[n \in 1..ViewLen |-> IF n <= k THEN "torn" ELSE x] :
     k \in 0..ViewLen, x \in {"ok", "broken"}}

\* load_cache, "for attempt in range(max_retries)": a JSONDecodeError is
\* retried while attempt < max_retries - 1, any other exception ends the loop.
RECURSIVE ReadAttempts(_, _)
ReadAttempts(view, attempt) ==
  IF view[attempt] = "ok" THEN [ok |-> TRUE, attempts |-> attempt]
  ELSE IF view[attempt] = "torn" /\ attempt < MaxRetries
  THEN ReadAttempts(view, attempt + 1)
  ELSE [ok |-> FALSE, attempts |-> attempt]

MgOwnPath(m) == IF m.is_main_worker THEN "master" ELSE "worker"

\* load_cache: cache_data is emptied; a worker reads the Master if it exists;
\* without entries from the Master the manager reads its own file, and takes
\* its statistics too.  The reads made of each file are returned with it.
MgLoadCache(m, fs, views) ==
  LET try_main == ~m.is_main_worker /\ fs["master"].exists
      main == ReadAttempts(views["master"], 1)
      loaded_from_main == try_main /\ main.ok
      own_path == MgOwnPath(m)
      try_own == ~loaded_from_main /\ fs[own_path].exists
      own == ReadAttempts(views[own_path], 1)
  IN [m |-> [m EXCEPT
               !.cache_data = IF loaded_from_main THEN fs["master"].entries
                              ELSE IF try_own /\ own.ok THEN fs[own_path].entries
                              ELSE EmptyMap,
               !.stats = IF try_own /\ own.ok THEN fs[own_path].stats ELSE @],
      attempts |-> [p \in MgPaths |->
                      IF p = own_path /\ try_own THEN own.attempts
                      ELSE IF p = "master" /\ try_main THEN main.attempts
                      ELSE 0],
      unparsed |-> {p \in MgPaths :
                      \/ p = own_path /\ try_own /\ ~own.ok
                      \/ p = "master" /\ try_main /\ ~main.ok}]

\* reload_cache_if_modified: nothing without the file; the first call only
\* records the mtime; a newer mtime reloads.
MgReload(m, fs, views) ==
  LET f == fs[MgOwnPath(m)]
  IN IF ~f.exists THEN [m |-> m, reloaded |-> FALSE]
     ELSE IF ~m.last_cache_mtime.some
     THEN [m |-> [m EXCEPT !.last_cache_mtime = Some(f.mtime)], reloaded |-> FALSE]
     ELSE IF f.mtime > m.last_cache_mtime.v
     THEN [m |-> [MgLoadCache(m, fs, views).m EXCEPT !.last_cache_mtime = Some(f.mtime)],
           reloaded |-> TRUE]
     ELSE [m |-> m, reloaded |-> FALSE]

MgHit(m) == [m EXCEPT !.stats.cache_hits = @ + 1]
MgMiss(m) == [m EXCEPT !.stats.cache_misses = @ + 1]

\* get_fragility_curve: the manager after the call and whether it was a hit.
MgGetFragilityCurve(m, cache_key, check_updates, fs, views) ==
  LET m1 == [m EXCEPT !.stats.total_requests = @ + 1]
      m2 == IF check_updates /\ m1.stats.total_requests % ReloadEvery = 0
            THEN MgReload(m1, fs, views).m
            ELSE m1
  IN IF cache_key \in DOMAIN m2.cache_data
     THEN [m |-> MgHit(m2), hit |-> TRUE]
     ELSE IF check_updates
     THEN LET r == MgReload(m2, fs, views)
          IN IF r.reloaded /\ cache_key \in DOMAIN r.m.cache_data
             THEN [m |-> MgHit(r.m), hit |-> TRUE]
             ELSE [m |-> MgMiss(r.m), hit |-> FALSE]
     ELSE [m |-> MgMiss(m2), hit |-> FALSE]

\* Files left by earlier runs; no manager is built yet.
InitManager ==
  /\ RunIdle
  /\ NamesIdle
  /\ IdaIdle
  /\ ClassIdle
  /\ ValidIdle
  /\ RoundTripIdle
  /\ CityIdle
  /\ TrackerIdle
  /\ FitIdle
  /\ ScanIdle
  /\ \E master_exists, worker_exists \in BOOLEAN, e \in MgFileEntries, s \in MgFileStats :
       mg_files = [p \in MgPaths |->
                     IF (p = "master" /\ master_exists) \/ (p = "worker" /\ worker_exists)
                     THEN [exists |-> TRUE, entries |-> e, stats |-> s, mtime |-> 0]
                     ELSE MgAbsent]
  /\ \E is_main \in BOOLEAN :
       mg = [built |-> FALSE, is_main_worker |-> is_main, cache_data |-> EmptyMap,
             stats |-> [cache_hits |-> 0, cache_misses |-> 0, total_requests |-> 0],
             last_cache_mtime |-> NoneInt]
  /\ mg_stored = {}
  /\ mg_log = [op |-> "none"]
  /\ mg_calls = 0

\* FragilityCacheManager(cache_file_path, worker_id): __init__ ends with
\* load_cache.
MgConstruct ==
  /\ ~mg.built
  /\ \E views \in [MgPaths -> MgViews] :
       LET l == MgLoadCache(mg, mg_files, views)
       IN /\ mg' = [l.m EXCEPT !.built = TRUE]
          /\ mg_log' = [op |-> "load", attempts |-> l.attempts, unparsed |-> l.unparsed]
  /\ UNCHANGED <<mg_files, mg_stored, mg_calls, mgRest>>

\* store_fragility_curve(r)
MgStore(key) ==
  /\ mg.built
  /\ mg_calls < MaxManagerCalls
  /\ mg' = [mg EXCEPT !.cache_data = MapPut(@, key, 2)]
  /\ mg_stored' = mg_stored \cup {key}
  /\ mg_log' = [op |-> "store", key |-> key]
  /\ mg_calls' = mg_calls + 1
  /\ UNCHANGED <<mg_files, mgRest>>

\* get_fragility_curve(code, check_updates)
MgGet(key, check_updates) ==
  /\ mg.built
  /\ mg_calls < MaxManagerCalls
  /\ \E views \in [MgPaths -> MgViews] :
       LET g == MgGetFragilityCurve(mg, key, check_updates, mg_files, views)
       IN /\ mg' = g.m
          /\ mg_log' = [op |-> "get", key |-> key, hit |-> g.hit,
                        check_updates |-> check_updates, stats_before |-> mg.stats]
  /\ mg_calls' = mg_calls + 1
  /\ UNCHANGED <<mg_files, mg_stored, mgRest>>

\* save_cache: the manager's entries and statistics go to its own file.
MgSave ==
  /\ mg.built
  /\ mg_calls < MaxManagerCalls
  /\ mg_files' = [mg_files EXCEPT ![MgOwnPath(mg)] =
                    [exists |-> TRUE, entries |-> mg.cache_data, stats |-> mg.stats,
                     mtime |-> mg_calls + 1]]
  /\ mg_log' = [op |-> "save"]
  /\ mg_calls' = mg_calls + 1
  /\ UNCHANGED <<mg, mg_stored, mgRest>>

\* Another process (the scheduler's merge, another run) saves the Master.
MgOtherSave ==
  /\ mg.built
  /\ mg_calls < MaxManagerCalls
  /\ \E e \in MgFileEntries, s \in MgFileStats :
       mg_files' = [mg_files EXCEPT !["master"] =
                      [exists |-> TRUE, entries |-> e, stats |-> s, mtime |-> mg_calls + 1]]
  /\ mg_calls' = mg_calls + 1
  /\ UNCHANGED <<mg, mg_stored, mg_log, mgRest>>

NextManager ==
  \/ MgConstruct
  \/ \E key \in MgKeys : MgStore(key)
  \/ \E key \in MgKeys, check_updates \in BOOLEAN : MgGet(key, check_updates)
  \/ MgSave
  \/ MgOtherSave

SpecManager == InitManager /\ [][NextManager]_vars

\* -------------------------------------------------------------- SpecScan
\* GroundMotionProcessor: scan_ground_motions over the EQ### directories,
\* then load_ground_motion on the records of the inventory.
MaxDirs == 2          \* EQ### directories under gm_directory
MaxExtraLines == 1    \* lines a file has beyond the ones _validate_gm_file reads

ValidatedLines == 10  \* "lines = f.readlines()[:10]"

EqDirs == 1..MaxDirs
Components == {"FN", "FP"}

\* A file is its lines; a line is a number ("0.0123") or anything float()
\* rejects.  Files are short (one line) or longer than the validated part,
\* with at most one line that is not a number.
GmFileLengths == {1, ValidatedLines + MaxExtraLines}
GmFiles ==
  {[n \in 1..len |-> IF n = bad THEN "text" ELSE "number"] :
     len \in GmFileLengths, bad \in 0..(ValidatedLines + MaxExtraLines)}

NoFile == [exists |-> FALSE, lines |-> <<>>]
GmFileStates == {NoFile} \cup {[exists |-> TRUE, lines |-> f] : f \in GmFiles}

\* Every line of the file is a number: what np.loadtxt needs.
PurelyNumeric(lines) == \A n \in 1..Len(lines) : lines[n] = "number"

Min(a, b) == IF a < b THEN a ELSE b

\* _validate_gm_file: float() over the first 10 lines only.
ValidateGmFile(file) ==
  /\ file.exists
  /\ \A n \in 1..Min(Len(file.lines), ValidatedLines) : file.lines[n] = "number"

InitScan ==
  /\ RunIdle
  /\ NamesIdle
  /\ IdaIdle
  /\ ClassIdle
  /\ ValidIdle
  /\ RoundTripIdle
  /\ CityIdle
  /\ TrackerIdle
  /\ FitIdle
  /\ ManagerIdle
  /\ gm_directory \in [EqDirs -> [Components -> GmFileStates]]
  /\ scan_pos = 0
  /\ gm_inventory = {}
  /\ gm_warnings = {}
  /\ gm_load = [op |-> "none"]

\* One pass of the loop of scan_ground_motions, over the next directory.
ScanDir ==
  /\ scan_pos < MaxDirs
  /\ LET eq_id == scan_pos + 1
         fn_file == gm_directory[eq_id]["FN"]
         fp_file == gm_directory[eq_id]["FP"]
     IN IF fn_file.exists /\ fp_file.exists
           /\ ValidateGmFile(fn_file) /\ ValidateGmFile(fp_file)
        THEN /\ gm_inventory' = gm_inventory \cup {eq_id}
             /\ UNCHANGED gm_warnings
        ELSE /\ gm_warnings' = gm_warnings \cup {eq_id}
             /\ UNCHANGED gm_inventory
  /\ scan_pos' = scan_pos + 1
  /\ UNCHANGED <<gm_directory, gm_load, scanRest>>

\* load_ground_motion(gm_id, component) after the scan: np.loadtxt raises on
\* a line that is not a number, and the exception goes to the caller.
LoadGroundMotion(gm_id, component) ==
  /\ scan_pos = MaxDirs
  /\ gm_id \in gm_inventory
  /\ gm_load' = [op |-> "load", gm_id |-> gm_id, component |-> component,
                 raised |-> ~PurelyNumeric(gm_directory[gm_id][component].lines)]
  /\ UNCHANGED <<gm_directory, scan_pos, gm_inventory, gm_warnings, scanRest>>

NextScan ==
  \/ ScanDir
  \/ \E gm_id \in EqDirs, component \in Components : LoadGroundMotion(gm_id, component)

SpecScan == InitScan /\ [][NextScan]_vars

\* ---------------------------------------------------------- SpecLeftover
\* One process_buildings_parallel call, as in Spec, in a cache directory
\* where an earlier run left the worker file of its last task: that run's
\* scheduler ended on a worker's exception before its cleanup, or the worker
\* was killed between open() and json.dump().
LeftoverCache == [EmptyCache EXCEPT !["B"] = [ts |-> 1, val |-> 0]]
LeftoverFiles == {PartialFile, OkFile(LeftoverCache)}

InitLeftover ==
  /\ building_tasks = <<>>
  /\ pc = "start"
  /\ final = FALSE
  /\ \E m \in {AbsentFile, OkFile(EarlierMaster)}, w \in LeftoverFiles :
       /\ files = [p \in Paths |-> IF p = MasterPath THEN m
                                   ELSE IF p = CacheFilePath(NumTasks) THEN w
                                   ELSE AbsentFile]
       /\ cache_data = LoadCache(Main, files)
       /\ savedKeys = CacheKeys(m.data)
  /\ backups = [p \in Paths |-> <<>>]
  /\ wpc = [i \in Tasks |-> "rejected"]
  /\ wcache = [i \in Tasks |-> EmptyCache]
  /\ result = [i \in Tasks |-> NoEntry]
  /\ outcome = [i \in Tasks |-> "-"]
  /\ stats = [failed_tasks |-> 0, successful_tasks |-> 0, completed_count |-> 0]
  /\ now = 2
  /\ lastOp = NoOp
  /\ sawSaved = {}
  /\ unlinkFailed = {}
  /\ mergeRead = {}
  /\ OthersIdle

SpecLeftover == InitLeftover /\ [][Next]_vars

\* ---------------------------------------------------------------- claims
\* The entries the worker files hold for key k, and the files holding one.
HoldersOf(k) == {p \in WorkerCacheFiles(files) : files[p].st = "ok" /\ files[p].data[k] # NoEntry}
WorkerEntries(k) == {files[p].data[k] : p \in HoldersOf(k)}
DistinctStamps(k) ==
  /\ Cardinality(HoldersOf(k)) >= 2
  /\ \A p, q \in HoldersOf(k) : p # q => files[p].data[k].ts # files[q].data[k].ts
Latest(S) == {e \in S : \A f \in S : e.ts >= f.ts}

\* C1: for every key that two or more worker files hold with pairwise distinct
\* timestamps, a merge leaves in the Master the entry with the latest
\* timestamp among the worker entries and the entry the Master held, with all
\* its fields, in whatever order the worker files are visited.
C1_MergeKeepsLatest ==
  [][lastOp'.op = "merge" =>
       \A k \in Archetypes :
         DistinctStamps(k) =>
           cache_data'[k] \in Latest(WorkerEntries(k) \cup ({cache_data[k]} \ {NoEntry}))]_vars

\* Two worker files hold a key with timestamps T1 < T2 and different contents,
\* and after the merge the Master holds the T2 entry.
C1_Witness ==
  /\ lastOp.op = "merge"
  /\ \E k \in Archetypes : \E p, q \in HoldersOf(k) :
       /\ files[p].data[k].ts < files[q].data[k].ts
       /\ files[p].data[k].val # files[q].data[k].val
       /\ cache_data[k] = files[q].data[k]

\* C3 (as stated): under any sequence of puts and merges the entry held for a
\* key is replaced only by an entry with a strictly newer timestamp.
C3_ReplacedOnlyByNewer ==
  [][\A k \in Archetypes :
       (cache_data[k] # NoEntry /\ cache_data'[k] # cache_data[k])
         => cache_data'[k].ts > cache_data[k].ts]_vars

\* C3 (amended): a merge replaces the entry held for a key only by an entry
\* with a strictly newer timestamp and leaves it unchanged otherwise; a put
\* installs the entry it is given, whatever the timestamp of the entry held.
C3_MergeOnlyNewerPutInstalls ==
  [][/\ lastOp'.op = "merge" =>
          \A k \in Archetypes :
            (cache_data[k] # NoEntry /\ cache_data'[k] # cache_data[k])
              => (cache_data'[k].ts > cache_data[k].ts /\ cache_data'[k] \in WorkerEntries(k))
     /\ lastOp'.op = "put" =>
          /\ cache_data'[lastOp'.k] = lastOp'.e
          /\ \A k \in Archetypes \ {lastOp'.k} : cache_data'[k] = cache_data[k]]_vars

\* A merge has met a worker entry that is not newer than the entry held for
\* its key, with a different content, and the held entry is still there.
C3_Witness ==
  /\ lastOp.op = "merge"
  /\ \E k \in Archetypes : \E p \in HoldersOf(k) :
       /\ cache_data[k] # NoEntry
       /\ files[p].data[k].ts = cache_data[k].ts
       /\ files[p].data[k].val # cache_data[k].val

\* C2: once a save of the scheduler has put a key in the Master, every task
\* dispatched afterwards for that key resolves as a cache hit: it is never
\* computed and no worker file is written for it.
C2_LaterTasksHit ==
  \A i \in sawSaved :
    /\ wpc[i] \in {"loaded", "hit"}
    /\ ~Exists(files[i])

\* The call has ended: it returned, or an exception left it.
Ended == pc \in {"returned", "raised"}

\* C4: when the worker of a task raised, the call still returns, after the
\* final merge, with an outcome for every submitted task and Failed for the
\* task that raised.
C4_FailureIsolated ==
  \A i \in Tasks :
    (Ended /\ wpc[i] = "raised") =>
      /\ pc = "returned"
      /\ final
      /\ outcome[i] = "Failed"
      /\ \A j \in Submitted : outcome[j] # "-"

\* C5: when the call has ended, every submitted task has reached one terminal
\* state, and its outcome is recorded as Completed or Failed.
C5_OneOutcomeEach ==
  Ended => \A i \in Submitted : FutureDone(i) /\ outcome[i] \in {"Completed", "Failed"}

\* Invalid parameters: area <= 0, story count outside 1..MaxFloors, or a
\* structural system other than RC and SC.
InvalidParameters(p) ==
  \/ p.area_sqm <= 0
  \/ p.floor_count \notin 1..MaxFloors
  \/ p.structural_system \notin {"RC", "SC"}

\* C6: a task with invalid parameters is never submitted to the pool and is
\* counted in failed_tasks (together with the tasks recorded as Failed).
C6_InvalidCountedFailed ==
  pc # "start" =>
    LET invalid == {i \in Tasks : InvalidParameters(building_tasks[i])}
    IN /\ invalid \cap Submitted = {}
       /\ stats.failed_tasks >= Cardinality(invalid)

\* A step of the worker of task i.
WorkerStep(i) == pc' = pc /\ wpc'[i] # wpc[i]

\* C7: a step of a worker never changes the Master file nor its backups nor
\* the file of another worker; a worker takes the Master's entry when the
\* Master holds the key, and the worker of a computed result has saved it in
\* its own worker file.
C7_WorkersNeverWriteMaster ==
  [][\A i \in Tasks :
       WorkerStep(i) =>
         /\ files'[MasterPath] = files[MasterPath]
         /\ backups'[MasterPath] = backups[MasterPath]
         /\ \A p \in WorkerPaths \ {i} : files'[p] = files[p]
         /\ (wpc[i] = "queued" /\ files[MasterPath].st = "ok")
              => wcache'[i] = files[MasterPath].data
         /\ (wpc[i] = "loaded" /\ files[MasterPath].st = "ok"
               /\ files[MasterPath].data[Arch(i)] # NoEntry)
              => (wpc'[i] = "hit" /\ result'[i] = files[MasterPath].data[Arch(i)])
         /\ wpc'[i] = "ok"
              => (files'[i].st = "ok" /\ files'[i].data[Arch(i)] = result[i])]_vars

\* A worker missed a key in a Master that exists, computed it and saved it in
\* its own file; the Master is as the earlier run left it.
C7_Witness ==
  \E i \in Tasks :
    /\ wpc[i] = "ok"
    /\ files[i].st = "ok"
    /\ files[i].data[Arch(i)] = result[i]
    /\ result[i] # NoEntry
    /\ files[MasterPath] = OkFile(EarlierMaster)

C9_BackupByCopy ==
  [][/\ Exists(files[MasterPath]) => Exists(files'[MasterPath])
     /\ (files[MasterPath].st = "ok" /\ files'[MasterPath] # files[MasterPath])
          => /\ backups'[MasterPath] # <<>>
             /\ backups'[MasterPath][Len(backups'[MasterPath])] = files[MasterPath]]_vars

\* A save is rewriting a Master that existed: the file is there, truncated,
\* and the newest backup holds what the earlier run left.
C9_Witness ==
  /\ pc = "dump"
  /\ files[MasterPath].st = "partial"
  /\ backups[MasterPath] # <<>>
  /\ backups[MasterPath][Len(backups[MasterPath])] = OkFile(EarlierMaster)

C11_GlobFindsWorkerFiles ==
  glob_log.op # "none" =>
    glob_log.found = {WorkerCacheName(cache_file, id) : id \in WorkerIds} \cap glob_log.before

\* The Master the run started from held key k (entries of the earlier run
\* have val 0, entries of this run the number of their task).
EarlierHolds(k) ==
  /\ backups[MasterPath] # <<>>
  /\ backups[MasterPath][1] = OkFile(EarlierMaster)
  /\ EarlierMaster[k] # NoEntry

\* The Backend gave the same for the same archetype: no archetype was
\* computed by one task and found without result by another.
SameForSameArchetype ==
  \A i, j \in Submitted :
    Arch(i) = Arch(j) => ~(wpc[i] = "none" /\ wpc[j] = "ok")

\* C12: with a Backend that gives the same for the same archetype, what the
\* Master holds after the final merge follows from the tasks and the Master
\* the run started from, whatever the interleaving: a key is held exactly if
\* the earlier Master held it or a submitted task has it and the Backend
\* yields a result for it; a key of the earlier Master keeps the earlier
\* content, any other key has what the Backend computed for that archetype.
C12_ResultsOrderIndependent ==
  (pc = "returned" /\ final /\ SameForSameArchetype) =>
    \A k \in Archetypes :
      LET held == files[MasterPath].data[k]
      IN /\ held # NoEntry <=>
              \/ EarlierHolds(k)
              \/ \E i \in Submitted :
                   Arch(i) = k /\ \A j \in Submitted : Arch(j) = k => wpc[j] # "none"
         /\ EarlierHolds(k) => held.val = EarlierMaster[k].val
         /\ (held # NoEntry /\ ~EarlierHolds(k)) =>
              \E i \in Submitted : Arch(i) = k /\ held.val = i

\* The results kept for ground motion gm.
ResultsOf(gm) == {all_results[n] : n \in {m \in 1..Len(all_results) : all_results[m].gm_id = gm}}

\* C13: every result that did not converge is kept as a collapse sample and
\* no analysis is run at a later level for its ground motion; a ground motion
\* whose sweep is over without a collapse sample was analysed at every level,
\* whatever happened to the other ground motions.
C13_NonConvergenceHaltsSweep ==
  /\ \A n \in 1..Len(all_results) :
       ~all_results[n].analysis_success =>
         /\ all_results[n].collapse
         /\ \A l \in ImLevels :
              l > all_results[n].pga_target => <<all_results[n].gm_id, l>> \notin backend_runs
  /\ \A gm \in GmIds :
       (gm < gm_index /\ \A r \in ResultsOf(gm) : ~r.collapse) =>
         \A l \in ImLevels : <<gm, l>> \in backend_runs

\* The first ground motion did not converge at its first level and was not
\* analysed at the levels after it; the second one was analysed at every level.
C13_Witness ==
  /\ NumGMs >= 2
  /\ gm_index > 2
  /\ \E r \in ResultsOf(1) : r.pga_target = 1 /\ ~r.analysis_success /\ r.collapse
  /\ \A l \in ImLevels : (<<1, l>> \in backend_runs) = (l = 1)
  /\ \A l \in ImLevels : <<2, l>> \in backend_runs

\* The calls of classify_building made with the record r.
CallsWith(r) == {i \in 1..Len(calls) : calls[i].feature = r}

\* C14: whatever the calendar year, classify_building maps the record
\* {area_sqm: 120, max_height: 17.5, max_age: 30, floor: "5R"} to the code
\* "RC-PRE-5F-S" and the record {area_sqm: 800, max_height: 42.0, max_age: 35,
\* floor: "12M"} to the code "SC-PRE-12F-L".
C14_ScenarioCodes ==
  /\ \A i \in CallsWith(Record1) :
       /\ calls[i].out.some
       /\ GetArchetypeCode(calls[i].out.v) = <<"RC", "-", "PRE", "-", 5, "F", "-", "S">>
  /\ \A i \in CallsWith(Record2) :
       /\ calls[i].out.some
       /\ GetArchetypeCode(calls[i].out.v) = <<"SC", "-", "PRE", "-", 12, "F", "-", "L">>

\* C15: classify_building assigns area scale S exactly when the footprint is
\* below 150 m2, M exactly when it is from 150 to 500 m2, both included, and L
\* exactly when it is above 500 m2.
C15_AreaScale ==
  \A i \in 1..Len(calls) :
    calls[i].out.some =>
      LET area == calls[i].feature.area_sqm.v
          scale == calls[i].out.v.area_scale
      IN /\ scale = "S" <=> area < 150
         /\ scale = "M" <=> (150 <= area /\ area <= 500)
         /\ scale = "L" <=> area > 500

\* Footprints of exactly 150 and 500 m2 were classified, both as M.
C15_Witness ==
  /\ \E i \in 1..Len(calls) :
       /\ calls[i].feature.area_sqm.v = 150
       /\ calls[i].out.some
       /\ calls[i].out.v.area_scale = "M"
  /\ \E i \in 1..Len(calls) :
       /\ calls[i].feature.area_sqm.v = 500
       /\ calls[i].out.some
       /\ calls[i].out.v.area_scale = "M"

\* The story counts of the valid <digits><letter> floor codes of the
\* sub-polygons of a feature.
PolygonCounts(feature) ==
  {ParseFloorInfo(feature.polygons[j].floor).floor_count :
     j \in {k \in 1..Len(feature.polygons) : ParseFloorInfo(feature.polygons[k].floor).ok}}

\* C16: a record with a footprint and a height is refused only when neither
\* its root nor any of its sub-polygons carries a valid <digits><letter>
\* floor code; when the root carries no valid code and some sub-polygon does,
\* the building gets the largest story count among the sub-polygons' codes.
C16_FloorFallback ==
  \A i \in 1..Len(calls) :
    LET feature == calls[i].feature
        out == calls[i].out
    IN (feature.area_sqm.some /\ feature.max_height.some) =>
         /\ ~out.some =>
              /\ ~ParseFloorInfo(feature.floor).ok
              /\ PolygonCounts(feature) = {}
         /\ (~ParseFloorInfo(feature.floor).ok /\ PolygonCounts(feature) # {}) =>
              /\ out.some
              /\ out.v.floor_count = SetMax(PolygonCounts(feature))

\* The calls whose building was classified and whose stick model was generated.
Modelled == {i \in 1..Len(calls) : calls[i].out.some /\ models[i].some}

\* C17: two calls of classify_building with the same record return the same
\* result, whenever they are made and whatever was called before; no call
\* changes state that a later call can read (age_stats); two stick models
\* generated for the same archetype code are the same.
C17_Pure ==
  /\ \A i, j \in 1..Len(calls) :
       calls[i].feature = calls[j].feature => calls[i].out = calls[j].out
  /\ \A i \in 1..Len(calls) : calls[i].stats_after = calls[i].stats_before
  /\ \A i, j \in Modelled :
       GetArchetypeCode(calls[i].out.v) = GetArchetypeCode(calls[j].out.v) =>
         models[i] = models[j]

\* C18: any two classified buildings with the same archetype code get the
\* same per-story parameters (mass, stiffness, yield strength, hardening
\* ratio, story height, material), whatever their real footprint area,
\* height and age.
C18_ParametersFromCodeAlone ==
  \A i, j \in Modelled :
    GetArchetypeCode(calls[i].out.v) = GetArchetypeCode(calls[j].out.v) =>
      models[i].stories = models[j].stories

\* Two buildings with different real footprint areas and the same archetype
\* code had their stick models generated, and the models are the same.
C18_Witness ==
  \E i, j \in Modelled :
    /\ calls[i].out.v.area_sqm # calls[j].out.v.area_sqm
    /\ GetArchetypeCode(calls[i].out.v) = GetArchetypeCode(calls[j].out.v)
    /\ Len(models[i].stories) > 0
    /\ models[i].stories = models[j].stories

\* The levels the curve holds, in the order of the bins.
PresentLevels == SelectSeq(RequiredLevels, LAMBDA l : l \in DOMAIN fragility_curve)

\* Some bin the curve holds is lower than the bin it holds before it by more
\* than the tolerance.
DecreasesBeyondTolerance ==
  \E i \in 2..Len(PresentLevels) :
    fragility_curve[PresentLevels[i - 1]] - fragility_curve[PresentLevels[i]] > MaxDecrease

Failed(check_name) ==
  \E n \in 1..Len(validation) :
    validation[n].check_name = check_name /\ ~validation[n].passed

CityDispatched == {t \in DOMAIN city_tasks : city_tasks[t] # "queued"}

\* C21: a run whose inventory path or ground-motion path is missing, or whose
\* ground-motion directory yields no valid record, gives no task to the
\* worker pool.
C21_AbortsBeforeDispatch ==
  (\/ ~city_inputs.geojson_exists
   \/ ~city_inputs.gm_directory_exists
   \/ ~city_inputs.gm_list_exists
   \/ city_inputs.gm_records = 0)
    => CityDispatched = {}

\* C22: no call of update_task_completion blocks: a thread inside it never
\* waits in report_progress for the lock the thread itself holds.
C22_UpdateNeverBlocks ==
  \A th \in Threads : pt_pc[th] = "report in update" => pt_lock # th

\* C23: within the sweep of one ground motion the analyses are run at
\* strictly increasing intensities, whatever list of levels is configured.
C23_IncreasingIntensity ==
  \A n, m \in 1..Len(backend_calls) :
    (n < m /\ backend_calls[n][1] = backend_calls[m][1]) =>
      backend_calls[n][2] < backend_calls[m][2]

\* C24: an archetype fails at the fitting steps only when the whole chain is
\* used up: the demand regression gave no parameters for the collapse state,
\* the per-state fit was run, and neither its regression nor its single-point
\* estimate gave parameters for the collapse state.
C24_FailsOnlyOnExhaustion ==
  fit_pc = "failed" =>
    /\ CollapseDamageState \notin fit_data.psdm_states
    /\ "traditional" \in fit_methods
    /\ FitLognormalFragilityCurve(fit_data.traditional[CollapseDamageState]) = "none"

\* The counter a resolution of the age adds to when the first tier that
\* applies is taken: the explicit max_age of the record if it has one, else
\* the sub-polygons if one of them has an age, else the default.
FirstTier(feature) ==
  IF feature.max_age.some THEN "used_max_age"
  ELSE IF \E j \in 1..Len(feature.polygons) : feature.polygons[j].age.some
  THEN "used_polygon_max_age"
  ELSE "used_default_age"

\* C25: each classification that resolves an age adds one to the counter of
\* the first tier that applies and to no other, a record with an explicit
\* max_age gets that age, and the three tier counters add up to
\* total_processed.
C25_AgeTiers ==
  /\ age_stats.used_max_age + age_stats.used_polygon_max_age + age_stats.used_default_age
       = age_stats.total_processed
  /\ \A i \in 1..Len(calls) :
       calls[i].out.some =>
         /\ calls[i].stats_after =
              [calls[i].stats_before EXCEPT !.total_processed = @ + 1,
                                            ![FirstTier(calls[i].feature)] = @ + 1]
         /\ calls[i].feature.max_age.some =>
              calls[i].out.v.age = calls[i].feature.max_age.v

\* C26: when a cache file cannot be parsed, load_cache makes at most 3
\* attempts on it and the manager then proceeds with an empty cache.
C26_UnparsableMeansEmpty ==
  (mg_log.op = "load" /\ mg_log.unparsed # {}) =>
    /\ \A p \in MgPaths : mg_log.attempts[p] <= MaxRetries
    /\ mg.cache_data = EmptyMap

\* C29: a lookup changes no cache entry: a result given to
\* store_fragility_curve stays in the manager's cache_data, and every later
\* get_fragility_curve for its code is a hit, whatever is written to the
\* cache files in between (no entry is ever removed here).
C29_StoredStaysServed ==
  /\ \A key \in mg_stored : key \in DOMAIN mg.cache_data /\ mg.cache_data[key] = 2
  /\ (mg_log.op = "get" /\ mg_log.key \in mg_stored) => mg_log.hit

\* C30: the counters of a manager satisfy cache_hits + cache_misses =
\* total_requests, and a get_fragility_curve call raises total_requests by
\* exactly one.
C30_CountersAddUp ==
  /\ mg.stats.cache_hits + mg.stats.cache_misses = mg.stats.total_requests
  /\ mg_log.op = "get" =>
       mg.stats.total_requests = mg_log.stats_before.total_requests + 1

\* C27: scan_ground_motions puts a record in the inventory only if both of
\* its component files are purely numeric over their whole content; a pair
\* with a non-numeric line anywhere is dropped with a warning.
C27_InventoryPurelyNumeric ==
  \A eq_id \in EqDirs :
    /\ eq_id \in gm_inventory =>
         \A component \in Components :
           PurelyNumeric(gm_directory[eq_id][component].lines)
    /\ (eq_id <= scan_pos /\ \E component \in Components :
          ~PurelyNumeric(gm_directory[eq_id][component].lines)) =>
         eq_id \in gm_warnings

\* C28: cleanup_worker_cache_files deletes a worker file only if the
\* preceding merge read it and each of its entries is in the saved Master,
\* or superseded there by a newer entry for the same key.
C28_CleanupLosesNothing ==
  [][pc = "cleanup" =>
       \A p \in WorkerPaths :
         (Exists(files[p]) /\ ~Exists(files'[p])) =>
           /\ p \in mergeRead
           /\ \A k \in Archetypes :
                files[p].data[k] # NoEntry =>
                  \/ files'[MasterPath].data[k] = files[p].data[k]
                  \/ files'[MasterPath].data[k].ts > files[p].data[k].ts]_vars

====
